---- MODULE Spec2Model ----
(***************************************************************************)
(* Video-intelligence batching core of http_server.py: the batch store     *)
(* (vi_batch_data), the window timer (vi_batch_timer), the batch lock      *)
(* (vi_batch_lock), the ingest path of translate_payload, flush_vi_batch,  *)
(* schedule_vi_batch_flush and shutdown_handler, run by producer threads,  *)
(* threading.Timer threads and the signal handler.                         *)
(***************************************************************************)
EXTENDS Integers, Sequences, FiniteSets, TLC

\* ------------------------------------------------------------------ bounds
MaxCalls == 2
MaxPerFrame == 1
MaxNameLen == 2
MaxTracked == 3
Precision == 3
MaxCoordinate == 2
MaxExponent == 12
MaxOccupancy == 3
MaxIngested == 2

\* ------------------------------------------------------- program constants
\* Line 72: read from the environment at import; the service is run here
\* with VI_MAX_BATCH_SIZE=2.
VI_MAX_BATCH_SIZE == 2

Keys == {"live|cam1", "live|cam2"}

\* ------------------------------------------------------------------ threads
Producers == {<<"producer", 1>>, <<"producer", 2>>}
TimerThreads == {<<"timer", c>> : c \in 1..MaxCalls}
Main == <<"main", 0>>
\* A second run of shutdown_handler, started by a signal that arrives while
\* the first run has not returned: it runs on the main thread on top of the
\* first, which goes on only when the second has returned.
Nested == <<"main", 1>>
Handlers == {Main, Nested}
Threads == Producers \cup TimerThreads \cup Handlers
NoThread == <<"none", 0>>
None == <<"None", 0>>

\* vi_data of one request, one entry per frame: the number of detections in
\* the frame. No frame at all, or one frame of 0..MaxPerFrame detections.
Payloads == {<<>>} \cup {<<n>> : n \in 0..MaxPerFrame}

RECURSIVE SumSeq(_)
SumSeq(s) == IF s = <<>> THEN 0 ELSE Head(s) + SumSeq(Tail(s))

VARIABLES
    vi_batch_data,      \* the store: batches in dict insertion order
    vi_batch_timer,     \* the pending-timer handle, None or a timer
    vi_batch_lock,      \* holder of the batch lock, NoThread when free
    shutdown_flag,      \* threading.Event set by shutdown_handler
    session_closed,     \* http_session.close() has run
    timer,              \* state of every threading.Timer object
    pc,                 \* position of every thread
    req,                \* per producer: the request being ingested
    flushLocal,         \* per thread: locals of its flush_vi_batch call
    clock,              \* datetime.now()
    delivered,          \* summaries handed to send_to_slack, in order
    appended,           \* log of the detections appended, by detection id
    nextCall,           \* number of the next ingest call
    epoch,              \* number of times the store was cleared
    slack,              \* how the Slack webhook answers http_session.post
    contexts,           \* key round trip: the contexts of the requests
    key_store,          \* key round trip: the requests filed under each key
    summary_names,      \* key round trip: the names the summaries report
    detections,         \* track_objects: the argument
    tracker,            \* track_objects: the locals of the loop over frames
    tracking_stats,     \* track_objects: the result, None before the return
    IOU_THRESHOLD,      \* track_objects: VI_IOU_THRESHOLD as read at line 150
    iou_args,           \* calculate_iou: the two bounding boxes
    iou_result,         \* calculate_iou: the result, <<>> before the return
    vi_data,            \* ingest to summary: the vi_data of one request
    class_stats,        \* ingest to summary: the per-class aggregates
    malformed           \* the stream keys whose detections make summarizing raise

coreVars == <<vi_batch_data, vi_batch_timer, vi_batch_lock, shutdown_flag,
              session_closed, timer, pc, req, flushLocal, clock, delivered,
              appended, nextCall, epoch, slack>>

keyVars == <<contexts, key_store, summary_names>>

trackVars == <<detections, tracker, tracking_stats, IOU_THRESHOLD>>

iouVars == <<iou_args, iou_result>>

pipeVars == <<vi_data, class_stats>>

faultVars == <<malformed>>

pureVars == <<keyVars, trackVars, iouVars, pipeVars, faultVars>>

vars == <<coreVars, pureVars>>

NoReq == [key |-> "", n |-> 0, current_time |-> 0, call |-> 0]
NoFlush == [items |-> <<>>, idx |-> 0]

CoreInit ==
    /\ vi_batch_data = <<>>
    /\ vi_batch_timer = None
    /\ vi_batch_lock = NoThread
    /\ shutdown_flag = FALSE
    /\ session_closed = FALSE
    /\ timer = [t \in TimerThreads |-> "unused"]
    /\ pc = [t \in Threads |-> "idle"]
    /\ req = [p \in Producers |-> NoReq]
    /\ flushLocal = [t \in Threads |-> NoFlush]
    /\ clock = 0
    /\ delivered = <<>>
    /\ appended = <<>>
    /\ nextCall = 1
    /\ epoch = 0
    /\ slack = "ok"

\* The variables of the key round trip while no round trip is run.
KeyIdle ==
    /\ contexts = <<>>
    /\ key_store = <<>>
    /\ summary_names = <<>>

\* The variables of track_objects while it is not called.
TrackIdle ==
    /\ detections = <<>>
    /\ tracker = [phase |-> "idle"]
    /\ tracking_stats = None
    /\ IOU_THRESHOLD = <<3, 10>>

\* The variables of calculate_iou while it is not called on its own.
IouIdle ==
    /\ iou_args = <<>>
    /\ iou_result = <<>>

\* The variables of the path from ingest to summary while it is not run.
PipeIdle ==
    /\ vi_data = <<>>
    /\ class_stats = <<>>

\* Every detection of every request is well formed.
FaultIdle == malformed = {}

Init == CoreInit /\ KeyIdle /\ TrackIdle /\ IouIdle /\ PipeIdle /\ FaultIdle

\* ------------------------------------------------------------ dict helpers
StoreKeys(store) == {store[i].key : i \in 1..Len(store)}

IndexOf(store, k) == CHOOSE i \in 1..Len(store) : store[i].key = k

NewBatch(k) == [key |-> k, detections |-> <<>>, first_seen |-> -1, last_seen |-> -1]

\* vi_batch_data[stream_key] on the defaultdict: creates the batch if absent
GetOrCreate(store, k) ==
    IF k \in StoreKeys(store) THEN store ELSE Append(store, NewBatch(k))

\* ------------------------------------------------------------- Timer object
\* The answers Timer.is_alive() can give: the timer's thread runs from start()
\* until its callback has returned; the thread of a cancelled timer ends at a
\* moment of its own, so both answers are possible for it. Line 328 does not
\* ask a handle that is None.
is_alive(t) ==
    IF t = None THEN {FALSE}
    ELSE IF timer[t] = "cancelled" THEN BOOLEAN
    ELSE {timer[t] \in {"armed", "fired"}}

\* Timer.cancel(): stops a timer that has not fired; no effect otherwise
Cancel(tm, t) == IF tm[t] = "armed" THEN [tm EXCEPT ![t] = "cancelled"] ELSE tm


\* ------------------------------------------- translate_payload, VI branch
\* Lines 432-436: the request's stream key and vi_data (kept as the number of
\* detections the loops of lines 447-448 will visit), and the clock read taken
\* before the lock; every read of the clock returns a later time than the
\* read before it. A request is served by the first free worker thread.
\* Every detection of the request is a well-formed Detection record (string
\* class_name, numeric confidence, integer frame_id).
IngestBegin(p, k, data) ==
    /\ pc[p] = "idle"
    /\ \A q \in Producers : pc[q] = "idle" => q[2] >= p[2]
    /\ nextCall <= MaxCalls
    /\ clock' = clock + 1
    /\ req' = [req EXCEPT ![p] = [key |-> k, n |-> SumSeq(data),
                                  current_time |-> clock, call |-> nextCall]]
    /\ nextCall' = nextCall + 1
    /\ pc' = [pc EXCEPT ![p] = "ingest_lock"]
    /\ UNCHANGED <<vi_batch_data, vi_batch_timer, vi_batch_lock, shutdown_flag,
                   session_closed, timer, flushLocal, delivered, appended, epoch>>
    /\ UNCHANGED <<slack, pureVars>>

\* Mutant of AppendDetections: the request's detections replace the list
\* instead of being appended to it.
AppendDetections_Overwrite(batch, now, first, n) ==
    [batch EXCEPT
        !.first_seen = IF batch.first_seen = -1 THEN now ELSE batch.first_seen,
        !.last_seen = now,
        !.detections = [i \in 1..n |-> first + i - 1]]

\* The batch after lines 442-454: timestamps set, one detection appended per
\* detection of every frame; the new detections get the ids first..first+n-1.
AppendDetections(batch, now, first, n) ==
    [batch EXCEPT
        !.first_seen = IF batch.first_seen = -1 THEN now ELSE batch.first_seen,
        !.last_seen = now,
        !.detections = batch.detections \o [i \in 1..n |-> first + i - 1]]

\* Mutant of IngestAppend: the append does not wait for vi_batch_lock.
IngestAppend_NoLock(p) ==
    /\ pc[p] = "ingest_lock"
    /\ LET r == req[p]
           n == r.n
           store == GetOrCreate(vi_batch_data, r.key)
           i == IndexOf(store, r.key)
           batch == AppendDetections(store[i], r.current_time, Len(appended) + 1, n)
           batch_size == Len(batch.detections)
           should_flush_early == batch_size >= VI_MAX_BATCH_SIZE
       IN  /\ vi_batch_data' = [store EXCEPT ![i] = batch]
           /\ appended' = appended \o
                  [j \in 1..n |-> [key |-> r.key, epoch |-> epoch, call |-> r.call]]
           /\ pc' = [pc EXCEPT ![p] = IF should_flush_early THEN "flush_lock"
                                      ELSE "sched_lock"]
    /\ UNCHANGED <<vi_batch_timer, vi_batch_lock, shutdown_flag, session_closed,
                   timer, req, flushLocal, clock, delivered, nextCall, epoch>>
    /\ UNCHANGED <<slack, pureVars>>

\* Mutant of IngestAppend: the early flush waits until the batch is larger
\* than the maximum.
IngestAppend_LateFlush(p) ==
    /\ pc[p] = "ingest_lock"
    /\ vi_batch_lock = NoThread
    /\ LET r == req[p]
           n == r.n
           store == GetOrCreate(vi_batch_data, r.key)
           i == IndexOf(store, r.key)
           batch == AppendDetections(store[i], r.current_time, Len(appended) + 1, n)
           batch_size == Len(batch.detections)
           should_flush_early == batch_size > VI_MAX_BATCH_SIZE
       IN  /\ vi_batch_data' = [store EXCEPT ![i] = batch]
           /\ appended' = appended \o
                  [j \in 1..n |-> [key |-> r.key, epoch |-> epoch, call |-> r.call]]
           /\ pc' = [pc EXCEPT ![p] = IF should_flush_early THEN "flush_lock"
                                      ELSE "sched_lock"]
    /\ UNCHANGED <<vi_batch_timer, vi_batch_lock, shutdown_flag, session_closed,
                   timer, req, flushLocal, clock, delivered, nextCall, epoch>>
    /\ UNCHANGED <<slack, pureVars>>

\* Mutant of IngestAppend: every ingest call flushes.
IngestAppend_AlwaysFlush(p) ==
    /\ pc[p] = "ingest_lock"
    /\ vi_batch_lock = NoThread
    /\ LET r == req[p]
           n == r.n
           store == GetOrCreate(vi_batch_data, r.key)
           i == IndexOf(store, r.key)
           batch == AppendDetections(store[i], r.current_time, Len(appended) + 1, n)
           batch_size == Len(batch.detections)
           should_flush_early == TRUE
       IN  /\ vi_batch_data' = [store EXCEPT ![i] = batch]
           /\ appended' = appended \o
                  [j \in 1..n |-> [key |-> r.key, epoch |-> epoch, call |-> r.call]]
           /\ pc' = [pc EXCEPT ![p] = IF should_flush_early THEN "flush_lock"
                                      ELSE "sched_lock"]
    /\ UNCHANGED <<vi_batch_timer, vi_batch_lock, shutdown_flag, session_closed,
                   timer, req, flushLocal, clock, delivered, nextCall, epoch>>
    /\ UNCHANGED <<slack, pureVars>>

\* Mutant of IngestAppend: the limit is compared with the number of
\* detections of the request instead of the size of the batch.
IngestAppend_CountsRequest(p) ==
    /\ pc[p] = "ingest_lock"
    /\ vi_batch_lock = NoThread
    /\ LET r == req[p]
           n == r.n
           store == GetOrCreate(vi_batch_data, r.key)
           i == IndexOf(store, r.key)
           batch == AppendDetections(store[i], r.current_time, Len(appended) + 1, n)
           batch_size == n
           should_flush_early == batch_size >= VI_MAX_BATCH_SIZE
       IN  /\ vi_batch_data' = [store EXCEPT ![i] = batch]
           /\ appended' = appended \o
                  [j \in 1..n |-> [key |-> r.key, epoch |-> epoch, call |-> r.call]]
           /\ pc' = [pc EXCEPT ![p] = IF should_flush_early THEN "flush_lock"
                                      ELSE "sched_lock"]
    /\ UNCHANGED <<vi_batch_timer, vi_batch_lock, shutdown_flag, session_closed,
                   timer, req, flushLocal, clock, delivered, nextCall, epoch>>
    /\ UNCHANGED <<slack, pureVars>>

\* Lines 438-462, one critical section of vi_batch_lock; the thread then goes
\* on to flush_vi_batch (line 466) or schedule_vi_batch_flush (line 469).
IngestAppend(p) ==
    /\ pc[p] = "ingest_lock"
    /\ vi_batch_lock = NoThread
    /\ LET r == req[p]
           n == r.n
           store == GetOrCreate(vi_batch_data, r.key)
           i == IndexOf(store, r.key)
           batch == AppendDetections(store[i], r.current_time, Len(appended) + 1, n)
           batch_size == Len(batch.detections)
           should_flush_early == batch_size >= VI_MAX_BATCH_SIZE
       IN  /\ vi_batch_data' = [store EXCEPT ![i] = batch]
           /\ appended' = appended \o
                  [j \in 1..n |-> [key |-> r.key, epoch |-> epoch, call |-> r.call]]
           /\ pc' = [pc EXCEPT ![p] = IF should_flush_early THEN "flush_lock"
                                      ELSE "sched_lock"]
    /\ UNCHANGED <<vi_batch_timer, vi_batch_lock, shutdown_flag, session_closed,
                   timer, req, flushLocal, clock, delivered, nextCall, epoch>>
    /\ UNCHANGED <<slack, pureVars>>

\* ------------------------------------------------ schedule_vi_batch_flush
\* Mutant of schedule_vi_batch_flush: the check for a live timer is missing,
\* every call replaces the handle by a newly started timer.
schedule_Always(p) ==
    /\ pc[p] = "sched_lock"
    /\ vi_batch_lock = NoThread
    /\ LET new == <<"timer", req[p].call>>
       IN  /\ timer' = [timer EXCEPT ![new] = "armed"]
           /\ vi_batch_timer' = new
    /\ pc' = [pc EXCEPT ![p] = "idle"]
    /\ req' = [req EXCEPT ![p] = NoReq]
    /\ UNCHANGED <<vi_batch_data, vi_batch_lock, shutdown_flag, session_closed,
                   flushLocal, clock, delivered, appended, nextCall, epoch>>
    /\ UNCHANGED <<slack, pureVars>>

\* Mutant of schedule_vi_batch_flush: the timer is created and stored in the
\* handle but never started.
schedule_NoStart(p) ==
    /\ pc[p] = "sched_lock"
    /\ vi_batch_lock = NoThread
    /\ \E alive \in is_alive(vi_batch_timer) :
          IF vi_batch_timer # None /\ alive
          THEN UNCHANGED <<vi_batch_timer, timer>>
          ELSE /\ timer' = IF vi_batch_timer # None
                           THEN Cancel(timer, vi_batch_timer) ELSE timer
               /\ vi_batch_timer' = <<"timer", req[p].call>>
    /\ pc' = [pc EXCEPT ![p] = "idle"]
    /\ req' = [req EXCEPT ![p] = NoReq]
    /\ UNCHANGED <<vi_batch_data, vi_batch_lock, shutdown_flag, session_closed,
                   flushLocal, clock, delivered, appended, nextCall, epoch>>
    /\ UNCHANGED <<slack, pureVars>>

\* Lines 327-337, one critical section: a no-op while the handle names a live
\* timer, otherwise the old handle is cancelled and a new timer is started.
\* Then translate_payload returns None (line 472).
schedule_vi_batch_flush(p) ==
    /\ pc[p] = "sched_lock"
    /\ vi_batch_lock = NoThread
    /\ \E alive \in is_alive(vi_batch_timer) :
          IF vi_batch_timer # None /\ alive
          THEN UNCHANGED <<vi_batch_timer, timer>>
          ELSE LET new == <<"timer", req[p].call>>
                   cancelled == IF vi_batch_timer # None
                                THEN Cancel(timer, vi_batch_timer) ELSE timer
               IN  /\ timer' = [cancelled EXCEPT ![new] = "armed"]
                   /\ vi_batch_timer' = new
    /\ pc' = [pc EXCEPT ![p] = "idle"]
    /\ req' = [req EXCEPT ![p] = NoReq]
    /\ UNCHANGED <<vi_batch_data, vi_batch_lock, shutdown_flag, session_closed,
                   flushLocal, clock, delivered, appended, nextCall, epoch>>
    /\ UNCHANGED <<slack, pureVars>>

\* ------------------------------------------------------- threading.Timer
\* The interval elapses on a timer that was not cancelled: its thread calls
\* flush_vi_batch.
TimerExpire(t) ==
    /\ timer[t] = "armed"
    /\ timer' = [timer EXCEPT ![t] = "fired"]
    /\ pc' = [pc EXCEPT ![t] = "flush_lock"]
    /\ UNCHANGED <<vi_batch_data, vi_batch_timer, vi_batch_lock, shutdown_flag,
                   session_closed, req, flushLocal, clock, delivered, appended,
                   nextCall, epoch>>
    /\ UNCHANGED <<slack, pureVars>>

\* --------------------------------------------------------- flush_vi_batch
\* Lines 249-309: the summary message of one stream's batch.
Summary(batch) ==
    [key |-> batch.key,
     detections |-> batch.detections,
     total_count |-> Len(batch.detections),
     duration |-> IF batch.first_seen # -1 /\ batch.last_seen # -1
                  THEN batch.last_seen - batch.first_seen ELSE 0]

\* The trigger of a flush: the ingest call that flushes early, the timer whose
\* callback runs, or the shutdown handler.
FlushId(t) == IF t \in Producers THEN <<"early", req[t].call>> ELSE t

\* Lines 625-676: what becomes of a message handed to send_to_slack. The
\* blocks post is answered 200, or it and the plain-text fallback are both
\* answered with another status (logged at line 670), or both posts raise
\* (caught at lines 654-657 and 671-674). The call returns None in every case.
SlackStates == {"ok", "rejects", "unreachable"}

send_to_slack(state) ==
    IF state = "ok" THEN "sent"
    ELSE IF state = "rejects" THEN "rejected" ELSE "exception"

\* Line 313: the message handed to send_to_slack, and the outcome of the call.
Deliver(t, batch) ==
    Append(delivered, [message |-> Summary(batch), epoch |-> epoch,
                       by |-> FlushId(t), outcome |-> send_to_slack(slack)])

\* flush_vi_batch returns to its caller: line 472 of translate_payload, the
\* end of the timer thread, or line 686 of shutdown_handler.
AfterFlush(t) ==
    /\ pc' = [pc EXCEPT ![t] = IF t \in Producers THEN "idle"
                               ELSE IF t \in Handlers THEN "shutdown_cancel"
                               ELSE "done"]
    /\ req' = [p \in Producers |-> IF p = t THEN NoReq ELSE req[p]]
    /\ flushLocal' = [flushLocal EXCEPT ![t] = NoFlush]

\* Mutant of FlushAcquire: the lock is released before the summaries are
\* built and sent.
FlushAcquire_NoLock(t) ==
    /\ pc[t] = "flush_lock"
    /\ vi_batch_lock = NoThread
    /\ vi_batch_timer' = None
    /\ IF vi_batch_data = <<>>
       THEN /\ AfterFlush(t)
            /\ timer' = [u \in TimerThreads |->
                            IF u = t THEN "dead"
                            ELSE IF u = vi_batch_timer THEN Cancel(timer, u)[u]
                            ELSE timer[u]]
            /\ UNCHANGED <<vi_batch_lock, delivered>>
       ELSE /\ UNCHANGED vi_batch_lock
            /\ timer' = IF vi_batch_timer # None
                        THEN Cancel(timer, vi_batch_timer) ELSE timer
            /\ flushLocal' = [flushLocal EXCEPT ![t] = [items |-> vi_batch_data, idx |-> 1]]
            /\ delivered' = Deliver(t, vi_batch_data[1])
            /\ pc' = [pc EXCEPT ![t] = "flush_send"]
            /\ UNCHANGED req
    /\ UNCHANGED <<vi_batch_data, shutdown_flag, session_closed, clock,
                   appended, nextCall, epoch>>
    /\ UNCHANGED <<slack, pureVars>>

\* Mutant of FlushAcquire: the flush does not wait for the lock to be free.
FlushAcquire_NoWait(t) ==
    /\ pc[t] = "flush_lock"
    /\ vi_batch_timer' = None
    /\ IF vi_batch_data = <<>>
       THEN /\ AfterFlush(t)
            /\ timer' = [u \in TimerThreads |->
                            IF u = t THEN "dead"
                            ELSE IF u = vi_batch_timer THEN Cancel(timer, u)[u]
                            ELSE timer[u]]
            /\ UNCHANGED <<vi_batch_lock, delivered>>
       ELSE /\ vi_batch_lock' = t
            /\ timer' = IF vi_batch_timer # None
                        THEN Cancel(timer, vi_batch_timer) ELSE timer
            /\ flushLocal' = [flushLocal EXCEPT ![t] = [items |-> vi_batch_data, idx |-> 1]]
            /\ delivered' = Deliver(t, vi_batch_data[1])
            /\ pc' = [pc EXCEPT ![t] = "flush_send"]
            /\ UNCHANGED req
    /\ UNCHANGED <<vi_batch_data, shutdown_flag, session_closed, clock,
                   appended, nextCall, epoch>>
    /\ UNCHANGED <<slack, pureVars>>

\* Mutant of FlushAcquire: the handle is cleared without cancelling the timer.
FlushAcquire_NoCancel(t) ==
    /\ pc[t] = "flush_lock"
    /\ vi_batch_lock = NoThread
    /\ vi_batch_timer' = None
    /\ IF vi_batch_data = <<>>
       THEN /\ AfterFlush(t)
            /\ timer' = [u \in TimerThreads |->
                            IF u = t THEN "dead"
                            ELSE timer[u]]
            /\ UNCHANGED <<vi_batch_lock, delivered>>
       ELSE /\ vi_batch_lock' = t
            /\ UNCHANGED timer
            /\ flushLocal' = [flushLocal EXCEPT ![t] = [items |-> vi_batch_data, idx |-> 1]]
            /\ delivered' = Deliver(t, vi_batch_data[1])
            /\ pc' = [pc EXCEPT ![t] = "flush_send"]
            /\ UNCHANGED req
    /\ UNCHANGED <<vi_batch_data, shutdown_flag, session_closed, clock,
                   appended, nextCall, epoch>>
    /\ UNCHANGED <<slack, pureVars>>

\* Mutant of FlushAcquire: only the first stream's batch is summarized.
FlushAcquire_FirstStreamOnly(t) ==
    /\ pc[t] = "flush_lock"
    /\ vi_batch_lock = NoThread
    /\ vi_batch_timer' = None
    /\ IF vi_batch_data = <<>>
       THEN /\ AfterFlush(t)
            /\ timer' = [u \in TimerThreads |->
                            IF u = t THEN "dead"
                            ELSE IF u = vi_batch_timer THEN Cancel(timer, u)[u]
                            ELSE timer[u]]
            /\ UNCHANGED <<vi_batch_lock, delivered>>
       ELSE /\ vi_batch_lock' = t
            /\ timer' = IF vi_batch_timer # None
                        THEN Cancel(timer, vi_batch_timer) ELSE timer
            /\ flushLocal' = [flushLocal EXCEPT ![t] = [items |-> <<vi_batch_data[1]>>, idx |-> 1]]
            /\ delivered' = Deliver(t, vi_batch_data[1])
            /\ pc' = [pc EXCEPT ![t] = "flush_send"]
            /\ UNCHANGED req
    /\ UNCHANGED <<vi_batch_data, shutdown_flag, session_closed, clock,
                   appended, nextCall, epoch>>
    /\ UNCHANGED <<slack, pureVars>>

\* Lines 238-313: take the lock, cancel and clear the timer handle, return
\* at once (releasing the lock) when the store is empty; otherwise keep the
\* lock, start the loop over list(vi_batch_data.items()) and, for the first
\* batch, build its summary and call send_to_slack.
FlushAcquire(t) ==
    /\ pc[t] = "flush_lock"
    /\ vi_batch_lock = NoThread
    /\ vi_batch_timer' = None
    /\ IF vi_batch_data = <<>>
       THEN /\ AfterFlush(t)
            /\ timer' = [u \in TimerThreads |->
                            IF u = t THEN "dead"
                            ELSE IF u = vi_batch_timer THEN Cancel(timer, u)[u]
                            ELSE timer[u]]
            /\ UNCHANGED <<vi_batch_lock, delivered>>
       ELSE /\ vi_batch_lock' = t
            /\ timer' = IF vi_batch_timer # None
                        THEN Cancel(timer, vi_batch_timer) ELSE timer
            /\ flushLocal' = [flushLocal EXCEPT ![t] = [items |-> vi_batch_data, idx |-> 1]]
            /\ delivered' = Deliver(t, vi_batch_data[1])
            /\ pc' = [pc EXCEPT ![t] = "flush_send"]
            /\ UNCHANGED req
    /\ UNCHANGED <<vi_batch_data, shutdown_flag, session_closed, clock,
                   appended, nextCall, epoch>>
    /\ UNCHANGED <<slack, pureVars>>

\* Mutant of FlushNext: a delivery that failed ends the loop; the flush
\* returns with the remaining batches unsent and the store as it was.
FlushNext_Abort(t) ==
    /\ pc[t] = "flush_send"
    /\ flushLocal[t].idx < Len(flushLocal[t].items)
    /\ IF delivered[Len(delivered)].outcome = "sent"
       THEN /\ flushLocal' = [flushLocal EXCEPT ![t].idx = @ + 1]
            /\ delivered' = Deliver(t, flushLocal[t].items[flushLocal[t].idx + 1])
            /\ UNCHANGED <<vi_batch_lock, timer, pc, req>>
       ELSE /\ vi_batch_lock' = NoThread
            /\ timer' = IF t \in TimerThreads THEN [timer EXCEPT ![t] = "dead"] ELSE timer
            /\ AfterFlush(t)
            /\ UNCHANGED delivered
    /\ UNCHANGED <<vi_batch_data, vi_batch_timer, shutdown_flag, session_closed,
                   clock, appended, nextCall, epoch>>
    /\ UNCHANGED <<slack, pureVars>>

\* Lines 313-316 and 248-313: send_to_slack returns (it reports a failure by
\* logging, and an exception is caught at line 315); the loop builds the next
\* batch's summary and calls send_to_slack with it.
FlushNext(t) ==
    /\ pc[t] = "flush_send"
    /\ flushLocal[t].idx < Len(flushLocal[t].items)
    /\ flushLocal' = [flushLocal EXCEPT ![t].idx = @ + 1]
    /\ delivered' = Deliver(t, flushLocal[t].items[flushLocal[t].idx + 1])
    /\ UNCHANGED <<vi_batch_data, vi_batch_timer, vi_batch_lock, shutdown_flag,
                   session_closed, timer, pc, req, clock, appended, nextCall,
                   epoch>>
    /\ UNCHANGED <<slack, pureVars>>

\* Mutant of FlushClear: the store is not cleared after the summaries are sent.
FlushClear_KeepStore(t) ==
    /\ pc[t] = "flush_send"
    /\ flushLocal[t].idx >= Len(flushLocal[t].items)
    /\ vi_batch_timer' = None
    /\ vi_batch_lock' = IF vi_batch_lock = t THEN NoThread ELSE vi_batch_lock
    /\ timer' = IF t \in TimerThreads THEN [timer EXCEPT ![t] = "dead"] ELSE timer
    /\ AfterFlush(t)
    /\ UNCHANGED <<vi_batch_data, shutdown_flag, session_closed, clock, delivered,
                   appended, nextCall, epoch>>
    /\ UNCHANGED <<slack, pureVars>>

\* Mutant of FlushClear: the batches whose delivery failed stay in the store
\* for the next flush.
FlushClear_KeepFailed(t) ==
    /\ pc[t] = "flush_send"
    /\ flushLocal[t].idx >= Len(flushLocal[t].items)
    /\ LET failed(batch) ==
               \E i \in 1..Len(delivered) :
                   /\ delivered[i].epoch = epoch
                   /\ delivered[i].message.key = batch.key
                   /\ delivered[i].outcome # "sent"
       IN  vi_batch_data' = SelectSeq(vi_batch_data, failed)
    /\ vi_batch_timer' = None
    /\ vi_batch_lock' = IF vi_batch_lock = t THEN NoThread ELSE vi_batch_lock
    /\ epoch' = epoch + 1
    /\ timer' = IF t \in TimerThreads THEN [timer EXCEPT ![t] = "dead"] ELSE timer
    /\ AfterFlush(t)
    /\ UNCHANGED <<shutdown_flag, session_closed, clock, delivered, appended,
                   nextCall>>
    /\ UNCHANGED <<slack, pureVars>>

\* Lines 313-320 and the end of the with block: the last send_to_slack
\* returns; clear the store and the handle, release the lock, return.
FlushClear(t) ==
    /\ pc[t] = "flush_send"
    /\ flushLocal[t].idx >= Len(flushLocal[t].items)
    /\ vi_batch_data' = <<>>
    /\ vi_batch_timer' = None
    /\ vi_batch_lock' = IF vi_batch_lock = t THEN NoThread ELSE vi_batch_lock
    /\ epoch' = epoch + 1
    /\ timer' = IF t \in TimerThreads THEN [timer EXCEPT ![t] = "dead"] ELSE timer
    /\ AfterFlush(t)
    /\ UNCHANGED <<shutdown_flag, session_closed, clock, delivered, appended,
                   nextCall>>
    /\ UNCHANGED <<slack, pureVars>>

\* -------------------------------------------------------- shutdown_handler
\* Mutant of ShutdownBegin: the handler sets the flag and skips the flush.
ShutdownBegin_NoFlush ==
    /\ pc[Main] = "idle"
    /\ shutdown_flag' = TRUE
    /\ pc' = [pc EXCEPT ![Main] = "shutdown_cancel"]
    /\ UNCHANGED <<vi_batch_data, vi_batch_timer, vi_batch_lock, session_closed,
                   timer, req, flushLocal, clock, delivered, appended, nextCall,
                   epoch>>
    /\ UNCHANGED <<slack, pureVars>>

\* Lines 680-685: set the flag and call flush_vi_batch.
ShutdownBegin ==
    /\ pc[Main] = "idle"
    /\ shutdown_flag' = TRUE
    /\ pc' = [pc EXCEPT ![Main] = "flush_lock"]
    /\ UNCHANGED <<vi_batch_data, vi_batch_timer, vi_batch_lock, session_closed,
                   timer, req, flushLocal, clock, delivered, appended, nextCall,
                   epoch>>
    /\ UNCHANGED <<slack, pureVars>>

\* Lines 692-696: under the lock, cancel a timer that is still referenced.
ShutdownCancel(h) ==
    /\ pc[h] = "shutdown_cancel"
    /\ vi_batch_lock = NoThread
    /\ timer' = IF vi_batch_timer # None THEN Cancel(timer, vi_batch_timer) ELSE timer
    /\ vi_batch_timer' = None
    /\ pc' = [pc EXCEPT ![h] = "shutdown_close"]
    /\ UNCHANGED <<vi_batch_data, vi_batch_lock, shutdown_flag, session_closed,
                   req, flushLocal, clock, delivered, appended, nextCall, epoch>>
    /\ UNCHANGED <<slack, pureVars>>

\* Lines 699-705: http_session.close().
ShutdownClose(h) ==
    /\ pc[h] = "shutdown_close"
    /\ session_closed' = TRUE
    /\ pc' = [pc EXCEPT ![h] = "done"]
    /\ UNCHANGED <<vi_batch_data, vi_batch_timer, vi_batch_lock, shutdown_flag,
                   timer, req, flushLocal, clock, delivered, appended, nextCall,
                   epoch>>
    /\ UNCHANGED <<slack, pureVars>>

\* Lines 709-710 and 680-685: SIGTERM and SIGINT have the same handler, and a
\* signal that arrives while the handler runs starts the handler again on
\* top of the running one: it sets the flag and calls flush_vi_batch.
ShutdownReenter ==
    /\ pc[Main] \notin {"idle", "done"}
    /\ pc[Nested] = "idle"
    /\ shutdown_flag' = TRUE
    /\ pc' = [pc EXCEPT ![Nested] = "flush_lock"]
    /\ UNCHANGED <<vi_batch_data, vi_batch_timer, vi_batch_lock, session_closed,
                   timer, req, flushLocal, clock, delivered, appended, nextCall,
                   epoch>>
    /\ UNCHANGED <<slack, pureVars>>

\* A thread can run: the first run of the handler is suspended while a
\* second run is on top of it.
Runnable(t) == t = Main => pc[Nested] \in {"idle", "done"}

\* ------------------------------------------------------------ Slack webhook
\* The webhook endpoint starts or stops answering, or the network to it
\* comes or goes, at any moment.
SlackChange(state) ==
    /\ state # slack
    /\ slack' = state
    /\ UNCHANGED <<vi_batch_data, vi_batch_timer, vi_batch_lock, shutdown_flag,
                   session_closed, timer, pc, req, flushLocal, clock, delivered,
                   appended, nextCall, epoch>>
    /\ UNCHANGED pureVars

\* ----------------------------------------------------------- specification
Next ==
    \/ \E p \in Producers, k \in Keys, data \in Payloads : IngestBegin(p, k, data)
    \/ \E p \in Producers : IngestAppend(p)
    \/ \E p \in Producers : schedule_vi_batch_flush(p)
    \/ \E t \in TimerThreads : TimerExpire(t)
    \/ \E t \in Threads : FlushAcquire(t)
    \/ \E t \in Threads : FlushNext(t)
    \/ \E t \in Threads : FlushClear(t)
    \/ ShutdownBegin
    \/ ShutdownCancel(Main)
    \/ ShutdownClose(Main)

Spec == Init /\ [][Next]_vars

\* Requests, timers, flushes and the shutdown signal, where a request may
\* also carry VI_MAX_BATCH_SIZE detections and so fill a batch on its own.
BurstNext ==
    \/ \E p \in Producers, k \in Keys : IngestBegin(p, k, <<VI_MAX_BATCH_SIZE>>)
    \/ Next

BurstSpec == Init /\ [][BurstNext]_vars

\* ------------------------------------------------- a batch that cannot be
\* summarized. The detections of the streams in malformed are stored as they
\* came (lines 449-454 check no types) with a field the summary cannot
\* handle: a confidence that is null or a string (TypeError at line 265), a
\* class_name that is a number (AttributeError at line 296), frame ids both
\* null and integer (TypeError at line 163, called from line 272). None of
\* these lines is inside the try of lines 312-316.
FaultInit ==
    /\ CoreInit
    /\ KeyIdle
    /\ TrackIdle
    /\ IouIdle
    /\ PipeIdle
    /\ malformed \in SUBSET Keys

Raises(batch) == batch.key \in malformed /\ Len(batch.detections) > 0

\* Lines 238-272: as FlushAcquire, but building the first batch's summary
\* raises. The handle was cleared at line 242; the with block releases the
\* lock; the store is left as it is. The exception ends the timer's thread,
\* or is caught at line 532 of translate_payload or line 687 of
\* shutdown_handler.
FlushAcquireRaise(t) ==
    /\ pc[t] = "flush_lock"
    /\ vi_batch_lock = NoThread
    /\ vi_batch_data # <<>>
    /\ Raises(vi_batch_data[1])
    /\ vi_batch_timer' = None
    /\ timer' = [u \in TimerThreads |->
                    IF u = t THEN "dead"
                    ELSE IF u = vi_batch_timer THEN Cancel(timer, u)[u]
                    ELSE timer[u]]
    /\ AfterFlush(t)
    /\ UNCHANGED <<vi_batch_data, vi_batch_lock, shutdown_flag, session_closed,
                   clock, delivered, appended, nextCall, epoch>>
    /\ UNCHANGED <<slack, pureVars>>

\* Lines 248-272: send_to_slack has returned and building the next batch's
\* summary raises: the loop is left, lines 319-320 are not reached, the lock
\* is released.
FlushNextRaise(t) ==
    /\ pc[t] = "flush_send"
    /\ flushLocal[t].idx < Len(flushLocal[t].items)
    /\ Raises(flushLocal[t].items[flushLocal[t].idx + 1])
    /\ vi_batch_lock' = IF vi_batch_lock = t THEN NoThread ELSE vi_batch_lock
    /\ timer' = IF t \in TimerThreads THEN [timer EXCEPT ![t] = "dead"] ELSE timer
    /\ AfterFlush(t)
    /\ UNCHANGED <<vi_batch_data, vi_batch_timer, shutdown_flag, session_closed,
                   clock, delivered, appended, nextCall, epoch>>
    /\ UNCHANGED <<slack, pureVars>>

FaultNext ==
    \/ \E p \in Producers, k \in Keys, data \in Payloads : IngestBegin(p, k, data)
    \/ \E p \in Producers : IngestAppend(p)
    \/ \E p \in Producers : schedule_vi_batch_flush(p)
    \/ \E t \in TimerThreads : TimerExpire(t)
    \/ \E t \in Threads :
          /\ ~(vi_batch_data # <<>> /\ Raises(vi_batch_data[1]))
          /\ FlushAcquire(t)
    \/ \E t \in Threads : FlushAcquireRaise(t)
    \/ \E t \in Threads :
          /\ pc[t] = "flush_send"
          /\ flushLocal[t].idx < Len(flushLocal[t].items)
          /\ ~Raises(flushLocal[t].items[flushLocal[t].idx + 1])
          /\ FlushNext(t)
    \/ \E t \in Threads : FlushNextRaise(t)
    \/ \E t \in Threads : FlushClear(t)

FaultSpec == FaultInit /\ [][FaultNext]_vars

\* Requests, timers and flushes without the shutdown signal, under fair
\* scheduling: every thread that can take a step eventually takes one, and an
\* armed timer eventually expires.
NextLive ==
    \/ \E p \in Producers, k \in Keys, data \in Payloads : IngestBegin(p, k, data)
    \/ \E p \in Producers : IngestAppend(p)
    \/ \E p \in Producers : schedule_vi_batch_flush(p)
    \/ \E t \in TimerThreads : TimerExpire(t)
    \/ \E t \in Threads : FlushAcquire(t)
    \/ \E t \in Threads : FlushNext(t)
    \/ \E t \in Threads : FlushClear(t)

ThreadStep(t) ==
    \/ t \in Producers /\ (IngestAppend(t) \/ schedule_vi_batch_flush(t))
    \/ t \in TimerThreads /\ TimerExpire(t)
    \/ FlushAcquire(t)
    \/ FlushNext(t)
    \/ FlushClear(t)

LiveSpec ==
    Init /\ [][NextLive]_vars /\ \A t \in Producers \cup TimerThreads : WF_vars(ThreadStep(t))

\* The shutdown handler run while no ingest call is in progress: the signal
\* arrives when every request thread is idle, and no request is taken until
\* the handler has returned. Timers armed earlier run as they do.
NextQuiet ==
    \/ \E p \in Producers, k \in Keys, data \in Payloads :
          pc[Main] \in {"idle", "done"} /\ IngestBegin(p, k, data)
    \/ \E p \in Producers : IngestAppend(p)
    \/ \E p \in Producers : schedule_vi_batch_flush(p)
    \/ \E t \in TimerThreads : TimerExpire(t)
    \/ \E t \in Threads : FlushAcquire(t)
    \/ \E t \in Threads : FlushNext(t)
    \/ \E t \in Threads : FlushClear(t)
    \/ (\A p \in Producers : pc[p] = "idle") /\ ShutdownBegin
    \/ ShutdownCancel(Main)
    \/ ShutdownClose(Main)

QuietSpec == Init /\ [][NextQuiet]_vars

\* The program with a second signal: SIGINT after SIGTERM, or either twice.
NextSignals ==
    \/ \E p \in Producers, k \in Keys, data \in Payloads : IngestBegin(p, k, data)
    \/ \E p \in Producers : IngestAppend(p)
    \/ \E p \in Producers : schedule_vi_batch_flush(p)
    \/ \E t \in TimerThreads : TimerExpire(t)
    \/ \E t \in Threads : Runnable(t) /\ FlushAcquire(t)
    \/ \E t \in Threads : Runnable(t) /\ FlushNext(t)
    \/ \E t \in Threads : Runnable(t) /\ FlushClear(t)
    \/ ShutdownBegin
    \/ ShutdownReenter
    \/ \E h \in Handlers : Runnable(h) /\ ShutdownCancel(h)
    \/ \E h \in Handlers : Runnable(h) /\ ShutdownClose(h)

SignalSpec == Init /\ [][NextSignals]_vars

\* Requests, timers and flushes against a webhook that may fail.
NextUnreliable ==
    \/ \E p \in Producers, k \in Keys, data \in Payloads : IngestBegin(p, k, data)
    \/ \E p \in Producers : IngestAppend(p)
    \/ \E p \in Producers : schedule_vi_batch_flush(p)
    \/ \E t \in TimerThreads : TimerExpire(t)
    \/ \E t \in Threads : FlushAcquire(t)
    \/ \E t \in Threads : FlushNext(t)
    \/ \E t \in Threads : FlushClear(t)
    \/ \E state \in SlackStates : SlackChange(state)

UnreliableSpec == Init /\ [][NextUnreliable]_vars

\* ------------------------------------------------ stream key round trip
\* The characters of an application or stream name: '|' and any other one.
Alphabet == {"a", "|"}

\* Lines 357-359: app and stream are the strings of the request's context,
\* never empty (an empty one is replaced by "N/A"). A name is the sequence
\* of its characters.
Names == UNION {[1..n -> Alphabet] : n \in 1..MaxNameLen}

\* The (app, stream) pairs of the requests.
Contexts == [app : Names, stream : Names]

\* Requests ingested in one window.
NumRequests == 2

\* Line 433: stream_key = f"{app}|{stream}"
stream_key(app, stream) == app \o <<"|">> \o stream

\* Line 249: stream_key.split('|', 1), cut at the first '|'
split(key) ==
    LET i == CHOOSE i \in 1..Len(key) :
                 key[i] = "|" /\ \A j \in 1..(i - 1) : key[j] # "|"
    IN  <<SubSeq(key, 1, i - 1), SubSeq(key, i + 1, Len(key))>>

\* the requests filed in the store so far
Filed == UNION {key_store[i].requests : i \in 1..Len(key_store)}

KeyInit ==
    /\ CoreInit
    /\ TrackIdle
    /\ IouIdle
    /\ PipeIdle
    /\ FaultIdle
    /\ contexts \in [1..NumRequests -> Contexts]
    /\ key_store = <<>>
    /\ summary_names = <<>>

\* Lines 433 and 439: the next request is filed under its stream key, in the
\* batch of that key if there is one, else in a new batch.
KeyIngest ==
    /\ Cardinality(Filed) < NumRequests
    /\ summary_names = <<>>
    /\ LET r == Cardinality(Filed) + 1
           key == stream_key(contexts[r].app, contexts[r].stream)
       IN  IF \E i \in 1..Len(key_store) : key_store[i].key = key
           THEN key_store' = [i \in 1..Len(key_store) |->
                                IF key_store[i].key = key
                                THEN [key_store[i] EXCEPT !.requests = @ \cup {r}]
                                ELSE key_store[i]]
           ELSE key_store' = Append(key_store, [key |-> key, requests |-> {r}])
    /\ UNCHANGED <<contexts, summary_names>>
    /\ UNCHANGED <<coreVars, trackVars, iouVars, pipeVars, faultVars>>

\* Lines 248-249, 279 and 319: the flush takes the names of every batch from
\* its key and clears the store.
KeyFlush ==
    /\ key_store # <<>>
    /\ summary_names' = [i \in 1..Len(key_store) |->
                            [app_name |-> split(key_store[i].key)[1],
                             stream_name |-> split(key_store[i].key)[2],
                             requests |-> key_store[i].requests]]
    /\ key_store' = <<>>
    /\ UNCHANGED contexts
    /\ UNCHANGED <<coreVars, trackVars, iouVars, pipeVars, faultVars>>

KeyNext == KeyIngest \/ KeyFlush

KeySpec == KeyInit /\ [][KeyNext]_vars

\* ----------------------------------------------------------- calculate_iou
\* A bounding box is a dict: a function from some of the keys x, y, w, h to
\* integers. A ratio is the pair <<numerator, denominator>>, denominator > 0.
Max(a, b) == IF a >= b THEN a ELSE b

Min(a, b) == IF a <= b THEN a ELSE b

Zero == <<0, 1>>

\* a / b >= c / d and a / b = c / d for ratios
RatioGeq(r, q) == r[1] * q[2] >= q[1] * r[2]

RatioEq(r, q) == r[1] * q[2] = q[1] * r[2]

\* Lines 93-128.
calculate_iou(bbox1, bbox2) ==
    LET required_keys == {"x", "y", "w", "h"}
    IN  IF ~(required_keys \subseteq DOMAIN bbox1 /\ required_keys \subseteq DOMAIN bbox2)
        THEN Zero
        ELSE LET x1 == bbox1.x  y1 == bbox1.y  w1 == bbox1.w  h1 == bbox1.h
                 x2 == bbox2.x  y2 == bbox2.y  w2 == bbox2.w  h2 == bbox2.h
             IN  IF w1 <= 0 \/ h1 <= 0 \/ w2 <= 0 \/ h2 <= 0
                 THEN Zero
                 ELSE LET x_overlap == Max(0, Min(x1 + w1, x2 + w2) - Max(x1, x2))
                          y_overlap == Max(0, Min(y1 + h1, y2 + h2) - Max(y1, y2))
                          intersection == x_overlap * y_overlap
                          area1 == w1 * h1
                          area2 == w2 * h2
                          union == area1 + area2 - intersection
                      IN  IF union > 0 THEN <<intersection, union>> ELSE Zero

\* ------------------------------------------------- calculate_iou on floats
\* The fields of a box parsed from JSON are Python ints (above: exact
\* arithmetic) or floats. A float is modelled as the ratio it stands for;
\* every float operation rounds its exact result to the nearest float, ties
\* to the even significand (IEEE 754), with Precision significant bits in
\* place of the 53 bits of a Python float. The values met here are far from
\* the overflow and underflow limits.
RECURSIVE Pow2(_)
Pow2(k) == IF k = 0 THEN 1 ELSE 2 * Pow2(k - 1)

Abs(n) == IF n >= 0 THEN n ELSE -n

\* the exponent e for which a / d lies in [2^(Precision-1), 2^Precision) * 2^e,
\* found by halving or doubling a / d, within -MaxExponent..MaxExponent
RECURSIVE Scale(_, _, _)
Scale(a, d, e) ==
    IF a >= Pow2(Precision) * d /\ e < MaxExponent THEN Scale(a, 2 * d, e + 1)
    ELSE IF a < Pow2(Precision - 1) * d /\ e > -MaxExponent THEN Scale(2 * a, d, e - 1)
    ELSE e

Exponent(a, d) == Scale(a, d, 0)

\* the float nearest to the ratio r
Round(r) ==
    IF r[1] = 0 THEN Zero
    ELSE LET sign == IF r[1] > 0 THEN 1 ELSE -1
             e == Exponent(Abs(r[1]), r[2])
             A == IF e >= 0 THEN Abs(r[1]) ELSE Abs(r[1]) * Pow2(-e)
             D == IF e >= 0 THEN r[2] * Pow2(e) ELSE r[2]
             q == A \div D
             rem == A % D
             m == IF 2 * rem > D \/ (2 * rem = D /\ q % 2 = 1) THEN q + 1 ELSE q
         IN  IF e >= 0 THEN <<sign * m * Pow2(e), 1>> ELSE <<sign * m, Pow2(-e)>>

\* float +, -, *, / and the comparisons of min and max
fadd(a, b) == Round(<<a[1] * b[2] + b[1] * a[2], a[2] * b[2]>>)

fsub(a, b) == Round(<<a[1] * b[2] - b[1] * a[2], a[2] * b[2]>>)

fmul(a, b) == Round(<<a[1] * b[1], a[2] * b[2]>>)

fdiv(a, b) == Round(<<a[1] * b[2], a[2] * b[1]>>)

fmax(a, b) == IF RatioGeq(a, b) THEN a ELSE b

fmin(a, b) == IF RatioGeq(b, a) THEN a ELSE b

\* Mutant of calculate_iou_float: the overlaps are not clamped at 0.
calculate_iou_float_NoClamp(bbox1, bbox2) ==
    LET required_keys == {"x", "y", "w", "h"}
    IN  IF ~(required_keys \subseteq DOMAIN bbox1 /\ required_keys \subseteq DOMAIN bbox2)
        THEN Zero
        ELSE LET x1 == bbox1.x  y1 == bbox1.y  w1 == bbox1.w  h1 == bbox1.h
                 x2 == bbox2.x  y2 == bbox2.y  w2 == bbox2.w  h2 == bbox2.h
             IN  IF w1[1] <= 0 \/ h1[1] <= 0 \/ w2[1] <= 0 \/ h2[1] <= 0
                 THEN Zero
                 ELSE LET x_overlap == fsub(fmin(fadd(x1, w1), fadd(x2, w2)), fmax(x1, x2))
                          y_overlap == fsub(fmin(fadd(y1, h1), fadd(y2, h2)), fmax(y1, y2))
                          intersection == fmul(x_overlap, y_overlap)
                          area1 == fmul(w1, h1)
                          area2 == fmul(w2, h2)
                          union == fsub(fadd(area1, area2), intersection)
                      IN  IF union[1] > 0 THEN fdiv(intersection, union) ELSE Zero

\* Lines 93-128 on boxes with float fields.
calculate_iou_float(bbox1, bbox2) ==
    LET required_keys == {"x", "y", "w", "h"}
    IN  IF ~(required_keys \subseteq DOMAIN bbox1 /\ required_keys \subseteq DOMAIN bbox2)
        THEN Zero
        ELSE LET x1 == bbox1.x  y1 == bbox1.y  w1 == bbox1.w  h1 == bbox1.h
                 x2 == bbox2.x  y2 == bbox2.y  w2 == bbox2.w  h2 == bbox2.h
             IN  IF w1[1] <= 0 \/ h1[1] <= 0 \/ w2[1] <= 0 \/ h2[1] <= 0
                 THEN Zero
                 ELSE LET x_overlap == fmax(Zero, fsub(fmin(fadd(x1, w1), fadd(x2, w2)),
                                                       fmax(x1, x2)))
                          y_overlap == fmax(Zero, fsub(fmin(fadd(y1, h1), fadd(y2, h2)),
                                                       fmax(y1, y2)))
                          intersection == fmul(x_overlap, y_overlap)
                          area1 == fmul(w1, h1)
                          area2 == fmul(w2, h2)
                          union == fsub(fadd(area1, area2), intersection)
                      IN  IF union[1] > 0 THEN fdiv(intersection, union) ELSE Zero

\* ----------------------------------------------------------- track_objects
\* Line 149: read from the environment at each call; the service is run
\* here with VI_TRACK_EXPIRY=1.
TRACK_EXPIRY == 1

\* Line 150: VI_IOU_THRESHOLD, a ratio in the range 0.0-1.0 read from the
\* environment at each call (variable IOU_THRESHOLD): the default 0.3 and
\* the two ends of the range.
Thresholds == {<<0, 1>>, <<3, 10>>, <<1, 1>>}

\* A detection is a dict: a function from some of the keys class_name,
\* frame_id, bbox. The value of bbox carries its Python type, and its items
\* when it is a dict.
\* Line 156: the detections the tracker keeps.
Valid(det) ==
    /\ "bbox" \in DOMAIN det
    /\ "frame_id" \in DOMAIN det
    /\ det.bbox.type = "dict"

\* det.get('class_name', 'unknown')
ClassOf(det) == IF "class_name" \in DOMAIN det THEN det.class_name ELSE "unknown"

\* Lines 153-157: frames.keys() and frames[frame_id], the valid detections of
\* a frame in their order of arrival.
FrameKeys(dets) == {dets[i].frame_id : i \in {j \in 1..Len(dets) : Valid(dets[j])}}

FrameOf(dets, frame_id) ==
    LET in_frame(det) == Valid(det) /\ det.frame_id = frame_id
    IN  SelectSeq(dets, in_frame)

\* Line 163: sorted(frames.keys())
RECURSIVE sorted(_)
sorted(S) ==
    IF S = {} THEN <<>>
    ELSE LET m == CHOOSE m \in S : \A n \in S : m <= n
         IN  <<m>> \o sorted(S \ {m})

\* Mutant of Unexpired: a track whose gap equals TRACK_EXPIRY is dropped too.
Unexpired_Strict(active_tracks, frame_id) ==
    LET keep(track) == (frame_id - track.last_frame) < TRACK_EXPIRY
    IN  SelectSeq(active_tracks, keep)

\* Lines 175-176: the tracks kept for this frame, in dict order.
Unexpired(active_tracks, frame_id) ==
    LET keep(track) == (frame_id - track.last_frame) <= TRACK_EXPIRY
    IN  SelectSeq(active_tracks, keep)

\* Mutant of match_candidates: a pair is a candidate only when its IoU is
\* above the threshold.
match_candidates_Strict(current_detections, active_tracks) ==
    LET nd == Len(current_detections)
        nt == Len(active_tracks)
        pairs == [k \in 1..(nd * nt) |->
                     LET det_idx == ((k - 1) \div nt) + 1
                         track == active_tracks[((k - 1) % nt) + 1]
                         det == current_detections[det_idx]
                     IN  [iou |-> calculate_iou(det.bbox.items, track.bbox),
                          tid |-> track.id,
                          det_idx |-> det_idx,
                          same_class |-> track.class = ClassOf(det)]]
        candidate(c) == c.same_class /\ ~RatioGeq(IOU_THRESHOLD, c.iou)
        chosen == SelectSeq(pairs, candidate)
    IN  [k \in 1..Len(chosen) |->
            [iou |-> chosen[k].iou, tid |-> chosen[k].tid, det_idx |-> chosen[k].det_idx]]

\* Mutant of match_candidates: the classes are not compared.
match_candidates_AnyClass(current_detections, active_tracks) ==
    LET nd == Len(current_detections)
        nt == Len(active_tracks)
        pairs == [k \in 1..(nd * nt) |->
                     LET det_idx == ((k - 1) \div nt) + 1
                         track == active_tracks[((k - 1) % nt) + 1]
                         det == current_detections[det_idx]
                     IN  [iou |-> calculate_iou(det.bbox.items, track.bbox),
                          tid |-> track.id,
                          det_idx |-> det_idx,
                          same_class |-> track.class = ClassOf(det)]]
        candidate(c) == RatioGeq(c.iou, IOU_THRESHOLD)
        chosen == SelectSeq(pairs, candidate)
    IN  [k \in 1..Len(chosen) |->
            [iou |-> chosen[k].iou, tid |-> chosen[k].tid, det_idx |-> chosen[k].det_idx]]

\* Lines 183-192: the match candidates in the order the two loops generate
\* them, detections outside, tracks inside.
match_candidates(current_detections, active_tracks) ==
    LET nd == Len(current_detections)
        nt == Len(active_tracks)
        pairs == [k \in 1..(nd * nt) |->
                     LET det_idx == ((k - 1) \div nt) + 1
                         track == active_tracks[((k - 1) % nt) + 1]
                         det == current_detections[det_idx]
                     IN  [iou |-> calculate_iou(det.bbox.items, track.bbox),
                          tid |-> track.id,
                          det_idx |-> det_idx,
                          same_class |-> track.class = ClassOf(det)]]
        candidate(c) == c.same_class /\ RatioGeq(c.iou, IOU_THRESHOLD)
        chosen == SelectSeq(pairs, candidate)
    IN  [k \in 1..Len(chosen) |->
            [iou |-> chosen[k].iou, tid |-> chosen[k].tid, det_idx |-> chosen[k].det_idx]]

\* Mutant of sort_reverse: the candidates are taken in the order of their
\* generation.
sort_reverse_Unsorted(c) == c

\* Line 195: sort(reverse=True, key=iou), a stable sort: the first of the
\* candidates with the highest IoU comes first.
RECURSIVE sort_reverse(_)
sort_reverse(c) ==
    IF c = <<>> THEN <<>>
    ELSE LET i == CHOOSE i \in 1..Len(c) :
                      /\ \A j \in 1..Len(c) : RatioGeq(c[i].iou, c[j].iou)
                      /\ \A j \in 1..(i - 1) : ~RatioGeq(c[j].iou, c[i].iou)
         IN  <<c[i]>> \o sort_reverse(SubSeq(c, 1, i - 1) \o SubSeq(c, i + 1, Len(c)))

\* Lines 198-205: greedy one-to-one assignment. st holds active_tracks,
\* matched_tracks and matched_detections.
RECURSIVE assign(_, _, _, _)
assign(cands, st, current_detections, frame_id) ==
    IF cands = <<>> THEN st
    ELSE LET c == Head(cands)
         IN  IF c.tid \notin st.matched_tracks /\ c.det_idx \notin st.matched_detections
             THEN assign(Tail(cands),
                         [active_tracks |->
                              [k \in 1..Len(st.active_tracks) |->
                                  IF st.active_tracks[k].id = c.tid
                                  THEN [st.active_tracks[k] EXCEPT
                                           !.bbox = current_detections[c.det_idx].bbox.items,
                                           !.last_frame = frame_id]
                                  ELSE st.active_tracks[k]],
                          matched_tracks |-> st.matched_tracks \cup {c.tid},
                          matched_detections |-> st.matched_detections \cup {c.det_idx}],
                         current_detections, frame_id)
             ELSE assign(Tail(cands), st, current_detections, frame_id)

\* Mutant of spawn: an unmatched detection gets no track of its own when a
\* track of its class was already seen in this frame.
RECURSIVE spawn_OncePerClass(_, _, _, _, _)
spawn_OncePerClass(det_idx, tr, matched_detections, current_detections, frame_id) ==
    IF det_idx > Len(current_detections) THEN tr
    ELSE IF \/ det_idx \in matched_detections
            \/ \E k \in 1..Len(tr.active_tracks) :
                  /\ tr.active_tracks[k].last_frame = frame_id
                  /\ tr.active_tracks[k].class = ClassOf(current_detections[det_idx])
    THEN spawn_OncePerClass(det_idx + 1, tr, matched_detections, current_detections,
                            frame_id)
    ELSE spawn_OncePerClass(det_idx + 1,
               [active_tracks |->
                    Append(tr.active_tracks,
                           [id |-> tr.next_track_id,
                            bbox |-> current_detections[det_idx].bbox.items,
                            last_frame |-> frame_id,
                            class |-> ClassOf(current_detections[det_idx])]),
                all_tracks |-> tr.all_tracks \cup {tr.next_track_id},
                next_track_id |-> tr.next_track_id + 1],
               matched_detections, current_detections, frame_id)

\* Mutant of spawn: only the first track made is added to the lifetime set.
RECURSIVE spawn_ForgetLifetime(_, _, _, _, _)
spawn_ForgetLifetime(det_idx, tr, matched_detections, current_detections, frame_id) ==
    IF det_idx > Len(current_detections) THEN tr
    ELSE IF det_idx \in matched_detections
    THEN spawn_ForgetLifetime(det_idx + 1, tr, matched_detections, current_detections,
                              frame_id)
    ELSE spawn_ForgetLifetime(det_idx + 1,
               [active_tracks |->
                    Append(tr.active_tracks,
                           [id |-> tr.next_track_id,
                            bbox |-> current_detections[det_idx].bbox.items,
                            last_frame |-> frame_id,
                            class |-> ClassOf(current_detections[det_idx])]),
                all_tracks |-> IF tr.all_tracks = {} THEN {tr.next_track_id}
                               ELSE tr.all_tracks,
                next_track_id |-> tr.next_track_id + 1],
               matched_detections, current_detections, frame_id)

\* Lines 208-216: a new track for every unmatched detection, from detection
\* det_idx on. tr holds active_tracks, all_tracks and next_track_id.
RECURSIVE spawn(_, _, _, _, _)
spawn(det_idx, tr, matched_detections, current_detections, frame_id) ==
    IF det_idx > Len(current_detections) THEN tr
    ELSE IF det_idx \in matched_detections
    THEN spawn(det_idx + 1, tr, matched_detections, current_detections, frame_id)
    ELSE spawn(det_idx + 1,
               [active_tracks |->
                    Append(tr.active_tracks,
                           [id |-> tr.next_track_id,
                            bbox |-> current_detections[det_idx].bbox.items,
                            last_frame |-> frame_id,
                            class |-> ClassOf(current_detections[det_idx])]),
                all_tracks |-> tr.all_tracks \cup {tr.next_track_id},
                next_track_id |-> tr.next_track_id + 1],
               matched_detections, current_detections, frame_id)

\* Lines 170-216: one iteration of the loop over sorted_frames.
track_frame(tr, dets, frame_id) ==
    LET current_detections == FrameOf(dets, frame_id)
        active == Unexpired(tr.active_tracks, frame_id)
        cands == sort_reverse(match_candidates(current_detections, active))
        matched == assign(cands, [active_tracks |-> active, matched_tracks |-> {},
                                  matched_detections |-> {}],
                          current_detections, frame_id)
    IN  spawn(1, [active_tracks |-> matched.active_tracks,
                  all_tracks |-> tr.all_tracks,
                  next_track_id |-> tr.next_track_id],
              matched.matched_detections, current_detections, frame_id)

\* Mutant of MaxOf: the smallest number is taken.
MaxOf_Smallest(S) == CHOOSE m \in S : \A n \in S : m <= n

\* max(...) of a non-empty set of numbers
MaxOf(S) == CHOOSE m \in S : \A n \in S : m >= n

\* Lines 146 and 160: the result for no detections or no valid detection.
NoStats ==
    [unique_count |-> 0, frames_processed |-> 0, peak_occupancy |-> 0,
     avg_occupancy |-> Zero]

\* Lines 219-227: the statistics returned after the loop. The mean of line
\* 220 is a float division of two ints.
Stats(tr, dets) ==
    LET keys == FrameKeys(dets)
    IN  [unique_count |-> Cardinality(tr.all_tracks),
         frames_processed |-> Cardinality(keys),
         peak_occupancy |-> MaxOf({Len(FrameOf(dets, f)) : f \in keys}),
         avg_occupancy |-> fdiv(<<SumSeq([k \in 1..Len(sorted(keys)) |->
                                             Len(FrameOf(dets, sorted(keys)[k]))]), 1>>,
                                <<Cardinality(keys), 1>>)]

\* track_objects applied to the whole list: the loop run over every frame.
RECURSIVE track_loop(_, _, _)
track_loop(tr, dets, frame_ids) ==
    IF frame_ids = <<>> THEN tr
    ELSE track_loop(track_frame(tr, dets, Head(frame_ids)), dets, Tail(frame_ids))

track_objects(dets) ==
    IF dets = <<>> \/ FrameKeys(dets) = {} THEN NoStats
    ELSE Stats(track_loop([active_tracks |-> <<>>, all_tracks |-> {}, next_track_id |-> 1],
                          dets, sorted(FrameKeys(dets))),
               dets)

\* The detections given to the tracker: two classes, three frames, three
\* boxes in a row, each overlapping the next with IoU 1/3 and the first only
\* touching the third; and detections without a frame_id, without a bbox,
\* with a bbox that is a list, with a bbox lacking a key, without class_name.
Dict(items) == [type |-> "dict", items |-> items]

TrackBoxes == {[x |-> x, y |-> 0, w |-> 2, h |-> 2] : x \in 0..2}

TrackDetections ==
    {[class_name |-> c, frame_id |-> f, bbox |-> Dict(b)] :
        c \in {"person", "car"}, f \in 1..3, b \in TrackBoxes}
    \cup {[class_name |-> "person", bbox |-> Dict([x |-> 0, y |-> 0, w |-> 2, h |-> 2])],
          [class_name |-> "person", frame_id |-> 1],
          [class_name |-> "person", frame_id |-> 1, bbox |-> [type |-> "list"]],
          [class_name |-> "person", frame_id |-> 2, bbox |-> Dict([x |-> 0, y |-> 0, w |-> 2])],
          [frame_id |-> 2, bbox |-> Dict([x |-> 0, y |-> 0, w |-> 2, h |-> 2])]}

TrackInit ==
    /\ CoreInit
    /\ KeyIdle
    /\ IouIdle
    /\ PipeIdle
    /\ FaultIdle
    /\ detections \in UNION {[1..n -> TrackDetections] : n \in 0..MaxTracked}
    /\ tracker = [phase |-> "idle"]
    /\ tracking_stats = None
    /\ IOU_THRESHOLD \in Thresholds

\* frames.keys() in dict insertion order: the frame ids in the order of their
\* first valid detection
RECURSIVE insertion_order(_)
insertion_order(dets) ==
    IF dets = <<>> THEN <<>>
    ELSE LET front == insertion_order(SubSeq(dets, 1, Len(dets) - 1))
             det == dets[Len(dets)]
         IN  IF Valid(det) /\ \A k \in 1..Len(front) : front[k] # det.frame_id
             THEN Append(front, det.frame_id)
             ELSE front

\* Mutant of TrackBegin: the frames are processed in their order of arrival.
TrackBegin_ArrivalOrder ==
    /\ tracker.phase = "idle"
    /\ IF detections = <<>> \/ FrameKeys(detections) = {}
       THEN /\ tracking_stats' = NoStats
            /\ tracker' = [phase |-> "done"]
       ELSE /\ tracker' = [phase |-> "loop",
                           sorted_frames |-> insertion_order(detections),
                           next |-> 1,
                           active_tracks |-> <<>>,
                           all_tracks |-> {},
                           next_track_id |-> 1]
            /\ UNCHANGED tracking_stats
    /\ UNCHANGED <<detections, IOU_THRESHOLD>>
    /\ UNCHANGED <<coreVars, keyVars, iouVars, pipeVars, faultVars>>

\* Lines 145-168: the early returns, or the locals before the first frame.
TrackBegin ==
    /\ tracker.phase = "idle"
    /\ IF detections = <<>> \/ FrameKeys(detections) = {}
       THEN /\ tracking_stats' = NoStats
            /\ tracker' = [phase |-> "done"]
       ELSE /\ tracker' = [phase |-> "loop",
                           sorted_frames |-> sorted(FrameKeys(detections)),
                           next |-> 1,
                           active_tracks |-> <<>>,
                           all_tracks |-> {},
                           next_track_id |-> 1]
            /\ UNCHANGED tracking_stats
    /\ UNCHANGED <<detections, IOU_THRESHOLD>>
    /\ UNCHANGED <<coreVars, keyVars, iouVars, pipeVars, faultVars>>

\* Lines 170-216: the loop body for the next frame.
TrackFrame ==
    /\ tracker.phase = "loop"
    /\ tracker.next <= Len(tracker.sorted_frames)
    /\ LET tr == track_frame(tracker, detections, tracker.sorted_frames[tracker.next])
       IN  tracker' = [tracker EXCEPT !.next = @ + 1,
                                      !.active_tracks = tr.active_tracks,
                                      !.all_tracks = tr.all_tracks,
                                      !.next_track_id = tr.next_track_id]
    /\ UNCHANGED <<detections, tracking_stats, IOU_THRESHOLD>>
    /\ UNCHANGED <<coreVars, keyVars, iouVars, pipeVars, faultVars>>

\* Lines 218-227: the loop is over, the statistics are returned.
TrackReturn ==
    /\ tracker.phase = "loop"
    /\ tracker.next > Len(tracker.sorted_frames)
    /\ tracking_stats' = Stats(tracker, detections)
    /\ tracker' = [tracker EXCEPT !.phase = "done"]
    /\ UNCHANGED <<detections, IOU_THRESHOLD>>
    /\ UNCHANGED <<coreVars, keyVars, iouVars, pipeVars, faultVars>>

TrackNext == TrackBegin \/ TrackFrame \/ TrackReturn

TrackSpec == TrackInit /\ [][TrackNext]_vars

\* ------------------------------------------------ the occupancy statistics
\* Batches for the statistics of lines 219-227: three frames, each with up
\* to MaxOccupancy detections of one person standing still, and possibly a
\* detection without a bbox in a fourth frame.
Crowd(frame_id, n) ==
    [k \in 1..n |-> [class_name |-> "person", frame_id |-> frame_id,
                     bbox |-> Dict([x |-> 0, y |-> 0, w |-> 2, h |-> 2])]]

OccupancyInit ==
    /\ CoreInit
    /\ KeyIdle
    /\ IouIdle
    /\ PipeIdle
    /\ FaultIdle
    /\ \E a \in 0..MaxOccupancy, b \in 0..MaxOccupancy, c \in 0..MaxOccupancy :
          \E rest \in {<<>>, <<[class_name |-> "person", frame_id |-> 4]>>} :
              detections = Crowd(1, a) \o Crowd(2, b) \o Crowd(3, c) \o rest
    /\ tracker = [phase |-> "idle"]
    /\ tracking_stats = None
    /\ IOU_THRESHOLD = <<3, 10>>

OccupancySpec == OccupancyInit /\ [][TrackNext]_vars

\* ------------------------------------------------- from ingest to summary
\* One request's detections on their way from translate_payload to the
\* summary of flush_vi_batch. A detection of the payload is a JSON object
\* with any of the fields class_name, confidence (a float in [0, 1]),
\* frame_id and bbox; vi_data has up to MaxIngested frame entries, the k-th
\* with frame_id k + 1, holding no 'detections' key, no detection, one
\* detection (possibly one whose bbox is a list), or two.
One == <<1, 1>>

FullDetections ==
    {[class_name |-> c, confidence |-> conf, frame_id |-> 1,
      bbox |-> Dict([x |-> 0, y |-> 0, w |-> 2, h |-> 2])] :
        c \in {"person", "car"}, conf \in {<<1, 4>>, One}}

PayloadDetections ==
    {[f \in fields |-> det[f]] :
        fields \in SUBSET {"class_name", "confidence", "frame_id", "bbox"},
        det \in FullDetections}

FrameEntries(frame_id) ==
    {[frame_id |-> frame_id]}
    \cup {[frame_id |-> frame_id, detections |-> ds] :
             ds \in {<<>>} \cup {<<det>> : det \in PayloadDetections}
                    \cup {<<[class_name |-> "person", confidence |-> One,
                              bbox |-> [type |-> "list"]]>>}
                    \cup {<<det, [confidence |-> <<1, 2>>]>> :
                             det \in {[class_name |-> "person", confidence |-> One,
                                       frame_id |-> 1,
                                       bbox |-> Dict([x |-> 0, y |-> 0, w |-> 2, h |-> 2])],
                                      [bbox |-> Dict([x |-> 1, y |-> 0, w |-> 2, h |-> 2])]}}}

PipelineInit ==
    /\ CoreInit
    /\ KeyIdle
    /\ IouIdle
    /\ FaultIdle
    /\ \E n \in 0..MaxIngested :
          \E frames \in [1..n -> UNION {FrameEntries(k + 1) : k \in 1..MaxIngested}] :
              /\ \A k \in 1..n : frames[k].frame_id = k + 1
              /\ vi_data = [frames |-> frames, next |-> 1]
    /\ class_stats = <<>>
    /\ detections = <<>>
    /\ tracker = [phase |-> "idle"]
    /\ tracking_stats = None
    /\ IOU_THRESHOLD = <<3, 10>>

\* dict.get(key, default)
Get(dict, key, default) == IF key \in DOMAIN dict THEN dict[key] ELSE default

\* dict[key] = value
Put(dict, key, value) ==
    [k \in DOMAIN dict \cup {key} |-> IF k = key THEN value ELSE dict[k]]

\* Mutant of stored: a detection takes the frame_id of its frame entry.
stored_FrameOfEntry(frame_data, detection) ==
    [class_name |-> Get(detection, "class_name", "unknown"),
     confidence |-> Get(detection, "confidence", Zero),
     frame_id |-> frame_data.frame_id,
     bbox |-> Get(detection, "bbox", Dict(<<>>))]

\* Lines 449-454: the dict appended for a detection of the payload.
stored(frame_data, detection) ==
    [class_name |-> Get(detection, "class_name", "unknown"),
     confidence |-> Get(detection, "confidence", Zero),
     frame_id |-> Get(detection, "frame_id", 0),
     bbox |-> Get(detection, "bbox", Dict(<<>>))]

\* Lines 447-454: one iteration of the loop over vi_data, appending the
\* detections of a frame entry.
Store ==
    /\ tracker.phase = "idle"
    /\ vi_data.next <= Len(vi_data.frames)
    /\ LET frame_data == vi_data.frames[vi_data.next]
           ds == Get(frame_data, "detections", <<>>)
       IN  detections' = detections \o [k \in 1..Len(ds) |-> stored(frame_data, ds[k])]
    /\ vi_data' = [vi_data EXCEPT !.next = @ + 1]
    /\ UNCHANGED <<class_stats, tracker, tracking_stats, IOU_THRESHOLD>>
    /\ UNCHANGED <<coreVars, keyVars, iouVars, faultVars>>

\* Mutant of aggregate: the minimum is not updated.
RECURSIVE aggregate_StaleMin(_)
aggregate_StaleMin(dets) ==
    IF dets = <<>>
    THEN [class_counts |-> <<>>, confidence_min |-> <<>>, confidence_max |-> <<>>]
    ELSE LET acc == aggregate_StaleMin(SubSeq(dets, 1, Len(dets) - 1))
             cls == dets[Len(dets)].class_name
             conf == dets[Len(dets)].confidence
         IN  [class_counts |-> Put(acc.class_counts, cls, Get(acc.class_counts, cls, 0) + 1),
              confidence_min |-> Put(acc.confidence_min, cls,
                                     Get(acc.confidence_min, cls, One)),
              confidence_max |-> Put(acc.confidence_max, cls,
                                     fmax(Get(acc.confidence_max, cls, Zero), conf))]

\* Lines 256-267: the per-class aggregates after the loop over the batch's
\* detections; the defaultdicts give 0, 1.0 and 0.0 for a class not yet seen.
RECURSIVE aggregate(_)
aggregate(dets) ==
    IF dets = <<>>
    THEN [class_counts |-> <<>>, confidence_min |-> <<>>, confidence_max |-> <<>>]
    ELSE LET acc == aggregate(SubSeq(dets, 1, Len(dets) - 1))
             cls == dets[Len(dets)].class_name
             conf == dets[Len(dets)].confidence
         IN  [class_counts |-> Put(acc.class_counts, cls, Get(acc.class_counts, cls, 0) + 1),
              confidence_min |-> Put(acc.confidence_min, cls,
                                     fmin(Get(acc.confidence_min, cls, One), conf)),
              confidence_max |-> Put(acc.confidence_max, cls,
                                     fmax(Get(acc.confidence_max, cls, Zero), conf))]

\* Lines 250-272: the batch is summarized once the request is stored: the
\* aggregates, then the tracker.
Summarize ==
    /\ tracker.phase = "idle"
    /\ vi_data.next > Len(vi_data.frames)
    /\ class_stats' = aggregate(detections)
    /\ tracking_stats' = track_objects(detections)
    /\ tracker' = [phase |-> "done"]
    /\ UNCHANGED <<vi_data, detections, IOU_THRESHOLD>>
    /\ UNCHANGED <<coreVars, keyVars, iouVars, faultVars>>

PipelineNext == Store \/ Summarize

PipelineSpec == PipelineInit /\ [][PipelineNext]_vars

\* ------------------------------------------------------ calling calculate_iou
\* The float fields: every float of Precision bits in [0, 2), and -1/2.
FloatVals == {<<m, Pow2(Precision - 1)>> : m \in 0..(Pow2(Precision) - 1)}

\* The boxes given to calculate_iou: boxes of positive width and height;
\* boxes with a zero or negative width or height; dicts lacking a key.
FloatBoxes ==
    {[x |-> x, y |-> y, w |-> w, h |-> <<1, 1>>] :
        x \in FloatVals, y \in {<<0, 1>>, <<1, 2>>}, w \in FloatVals \ {<<0, Pow2(Precision - 1)>>}}
    \cup {[x |-> <<0, 1>>, y |-> <<0, 1>>, w |-> w, h |-> h] :
             w \in {<<-1, 2>>, <<0, 1>>, <<1, 1>>}, h \in {<<-1, 2>>, <<0, 1>>}}
    \cup {[k \in {"x", "y", "w", "h"} \ {missing} |-> <<1, 1>>] :
             missing \in {"x", "y", "w", "h"}}

IntBoxes ==
    {[x |-> x, y |-> y, w |-> w, h |-> 2] : x \in 0..MaxCoordinate, y \in 0..1, w \in 1..2}
    \cup {[x |-> 0, y |-> 0, w |-> w, h |-> h] : w \in {-1, 0, 1}, h \in {-1, 0}}
    \cup {[k \in {"x", "y", "w", "h"} \ {missing} |-> 1] : missing \in {"x", "y", "w", "h"}}

IouInit ==
    /\ CoreInit
    /\ KeyIdle
    /\ TrackIdle
    /\ PipeIdle
    /\ FaultIdle
    /\ \/ iou_args \in [type : {"float"}, bbox1 : FloatBoxes, bbox2 : FloatBoxes]
       \/ iou_args \in [type : {"int"}, bbox1 : IntBoxes, bbox2 : IntBoxes]
    /\ iou_result = <<>>

\* Lines 93-128: the call returns. The result of the true division of two
\* ints is held as their ratio.
IouReturn ==
    /\ iou_result = <<>>
    /\ iou_result' = IF iou_args.type = "float"
                     THEN calculate_iou_float(iou_args.bbox1, iou_args.bbox2)
                     ELSE calculate_iou(iou_args.bbox1, iou_args.bbox2)
    /\ UNCHANGED iou_args
    /\ UNCHANGED <<coreVars, keyVars, trackVars, pipeVars, faultVars>>

IouNext == IouReturn

IouSpec == IouInit /\ [][IouNext]_vars

\* ------------------------------------------------------------------ claims
Range(f) == {f[i] : i \in DOMAIN f}

Appended == 1..Len(appended)

Summaries == 1..Len(delivered)

\* the detections still in the store
Stored == UNION {Range(vi_batch_data[i].detections) : i \in 1..Len(vi_batch_data)}

\* the delivered summaries that count detection d
CountedIn(d) == {i \in Summaries : d \in Range(delivered[i].message.detections)}

MaxDetections == MaxCalls * MaxPerFrame

\* C1: under every interleaving of ingest calls with timer, early and shutdown
\* flushes, no detection is counted in more than one delivered summary, no
\* detection has left the store without being counted in a delivered summary,
\* and no two summaries are delivered for the same stream and the same
\* accumulated batch.
C1_NoLossNoDoubleCount ==
    /\ \A d \in Appended : Cardinality(CountedIn(d)) <= 1
    /\ \A d \in Appended : d \in Stored \/ CountedIn(d) # {}
    /\ \A i, j \in Summaries :
          (/\ delivered[i].message.key = delivered[j].message.key
           /\ delivered[i].epoch = delivered[j].epoch) => i = j

\* An early flush has delivered the summary of a batch while the callback of
\* the fired window timer waits for the same batch.
C1_Witness ==
    \E p \in Producers, t \in TimerThreads :
        /\ pc[p] = "flush_send"
        /\ pc[t] = "flush_lock"
        /\ \E i \in Summaries : /\ delivered[i].by = FlushId(p)
                                /\ delivered[i].message.total_count > 0

\* C2: every detection appended by an ingest call is eventually counted in a
\* delivered summary, under fair scheduling and with no shutdown.
C2_EventuallyDelivered ==
    \A d \in 1..MaxDetections : (d \in Appended) ~> (CountedIn(d) # {})

\* A detection appended after the store was drained once has been counted in
\* the summary of a later timer flush.
C2_Witness ==
    \E i \in Summaries :
        /\ delivered[i].epoch >= 1
        /\ delivered[i].by \in TimerThreads
        /\ delivered[i].message.total_count > 0

\* C3: in every reachable state at most one timer is armed (started, neither
\* fired nor cancelled), across the whole store.
C3_AtMostOneArmed ==
    Cardinality({t \in TimerThreads : timer[t] = "armed"}) <= 1

\* A timer is armed while the callback of an earlier, fired timer has not run
\* yet.
C3_Witness ==
    \E t, u \in TimerThreads :
        timer[t] = "armed" /\ timer[u] = "fired" /\ pc[u] = "flush_lock"

\* The handle names a timer whose thread is alive: armed, or fired with its
\* callback not finished.
Pending == vi_batch_timer # None /\ timer[vi_batch_timer] \in {"armed", "fired"}

\* C4: a call of schedule_vi_batch_flush while a timer is pending changes
\* neither the handle, nor any timer, nor the store.
C4_ScheduleNoOp ==
    [][\A p \in Producers :
          (pc[p] = "sched_lock" /\ pc'[p] # "sched_lock" /\ Pending)
              => /\ vi_batch_timer' = vi_batch_timer
                 /\ timer' = timer
                 /\ vi_batch_data' = vi_batch_data]_vars

\* An ingest call has returned without flushing early and without starting a
\* timer of its own, a timer being pending: its schedule call was a no-op.
C4_Witness ==
    \E c \in 1..MaxCalls :
        /\ c < nextCall
        /\ \A p \in Producers : req[p].call # c
        /\ timer[<<"timer", c>>] = "unused"
        /\ \A i \in Summaries : delivered[i].by # <<"early", c>>
        /\ Pending

\* C5: every batch in the store holds at least one detection.
C5_BatchHasDetection ==
    \A i \in 1..Len(vi_batch_data) : Len(vi_batch_data[i].detections) >= 1

\* A thread's call of flush_vi_batch returns in this step.
FlushReturns(t) ==
    pc[t] \in {"flush_lock", "flush_send"} /\ pc'[t] \notin {"flush_lock", "flush_send"}

\* C6: when a flush returns the store is empty, the handle is clear and no
\* timer is armed; a flush that found the store empty has delivered nothing.
C6_FlushDrains ==
    [][\A t \in Threads :
          FlushReturns(t)
              => /\ vi_batch_data' = <<>>
                 /\ vi_batch_timer' = None
                 /\ \A u \in TimerThreads : timer'[u] # "armed"
                 /\ (vi_batch_data = <<>> => delivered' = delivered)]_vars

\* After an earlier flush has delivered a summary, the callback of a timer has
\* run on the emptied store and returned without delivering anything.
C6_Witness ==
    /\ delivered # <<>>
    /\ vi_batch_data = <<>>
    /\ vi_batch_timer = None
    /\ \E t \in TimerThreads :
          timer[t] = "dead" /\ \A i \in Summaries : delivered[i].by # t

\* C7: no delivered summary reports zero detections.
C7_NoEmptySummary ==
    \A i \in Summaries : delivered[i].message.total_count > 0

\* the threads inside the drain-and-process section of flush_vi_batch
Flushing == {t \in Threads : pc[t] = "flush_send"}

\* C8: at most one flush cycle is between its drain and the end of its
\* processing at any instant.
C8_OneFlushAtATime == Cardinality(Flushing) <= 1

\* A second flush trigger has fired while a flush cycle is in progress.
C8_Witness ==
    \E t, u \in Threads : t # u /\ pc[t] = "flush_send" /\ pc[u] = "flush_lock"

\* C9: two detections appended to the same stream key with no clearing of the
\* store between the two appends are counted by the same summaries.
C9_NoSplit ==
    \A i \in Summaries : \A d, e \in Appended :
        (appended[d].key = appended[e].key /\ appended[d].epoch = appended[e].epoch)
            => (i \in CountedIn(d) <=> i \in CountedIn(e))

\* One summary counts detections of two ingest calls, delivered while another
\* flush trigger is waiting.
C9_Witness ==
    /\ \E i \in Summaries : \E d, e \in Range(delivered[i].message.detections) :
          appended[d].call # appended[e].call
    /\ \E t, u \in Threads : t # u /\ pc[t] = "flush_send" /\ pc[u] = "flush_lock"

\* C10: no thread is inside send_to_slack while it holds the batch lock.
C10_NoDeliveryUnderLock ==
    \A t \in Threads : pc[t] = "flush_send" => vi_batch_lock # t

\* the summaries whose delivery failed
Failed == {i \in Summaries : delivered[i].outcome # "sent"}

\* C11: when a flush cycle returns, a summary of every batch it drained has
\* been handed to delivery by that cycle, whatever the outcome of the
\* deliveries before it.
C11_FailureDoesNotAbort ==
    [][\A t \in Threads :
          (pc[t] = "flush_send" /\ FlushReturns(t))
              => \A j \in 1..Len(flushLocal[t].items) :
                    \E i \in 1..Len(delivered') :
                        /\ delivered'[i].by = FlushId(t)
                        /\ delivered'[i].epoch = epoch
                        /\ delivered'[i].message = Summary(flushLocal[t].items[j])]_vars

\* In one flush cycle the delivery of one stream's summary has failed and the
\* summary of another stream has been delivered after it.
C11_Witness ==
    \E i, j \in Summaries :
        /\ i < j
        /\ i \in Failed
        /\ delivered[i].by = delivered[j].by
        /\ delivered[i].epoch = delivered[j].epoch
        /\ delivered[i].message.key # delivered[j].message.key

\* C12: a batch whose summary delivery failed is summarized once only, its
\* detections are counted in no other summary, and once its flush cycle has
\* cleared the store they are in the store no more.
C12_FailureIsTerminal ==
    \A i \in Failed :
        /\ \A j \in Summaries :
              (/\ delivered[j].message.key = delivered[i].message.key
               /\ delivered[j].epoch = delivered[i].epoch) => j = i
        /\ \A d \in Range(delivered[i].message.detections) :
              /\ CountedIn(d) = {i}
              /\ delivered[i].epoch < epoch => d \notin Stored

\* After the delivery of a stream's summary failed, a later flush cycle has
\* delivered a summary of the same stream's next batch.
C12_Witness ==
    \E i \in Failed : \E j \in Summaries :
        /\ delivered[j].message.key = delivered[i].message.key
        /\ delivered[j].epoch > delivered[i].epoch
        /\ delivered[i].message.total_count > 0
        /\ delivered[j].message.total_count > 0

\* len(batch['detections']) of a stream key, 0 when the key has no batch
BatchSize(store, k) ==
    IF k \in StoreKeys(store) THEN Len(store[IndexOf(store, k)].detections) ELSE 0

\* the ingest calls that have returned
Returned(c) == c < nextCall /\ \A p \in Producers : req[p].call # c

\* C13: an ingest call that leaves its stream's batch at or above
\* VI_MAX_BATCH_SIZE goes on to flush_vi_batch without touching a timer, and
\* when its flush returns the store holds no batch of its stream key, none of
\* its detections, and the call has armed no timer.
C13_EarlyFlush ==
    [][\A p \in Producers :
          /\ (/\ pc[p] = "ingest_lock" /\ pc'[p] # "ingest_lock"
              /\ BatchSize(vi_batch_data', req[p].key) >= VI_MAX_BATCH_SIZE)
                 => /\ pc'[p] = "flush_lock"
                    /\ timer' = timer
                    /\ vi_batch_timer' = vi_batch_timer
          /\ (pc[p] \in {"flush_lock", "flush_send"} /\ pc'[p] = "idle")
                 => /\ req[p].key \notin StoreKeys(vi_batch_data')
                    /\ \A d \in 1..Len(appended') :
                          appended'[d].call = req[p].call =>
                              /\ CountedIn(d)' # {}
                              /\ \A i \in 1..Len(vi_batch_data') :
                                    d \notin Range(vi_batch_data'[i].detections)
                    /\ timer'[<<"timer", req[p].call>>] = "unused"]_vars

\* An ingest call that filled its stream's batch has flushed it itself and
\* has returned.
C13_Witness ==
    \E i \in Summaries : \E c \in 1..MaxCalls :
        /\ delivered[i].by = <<"early", c>>
        /\ delivered[i].message.total_count >= VI_MAX_BATCH_SIZE
        /\ Returned(c)
        /\ delivered[i].message.key \notin StoreKeys(vi_batch_data)

\* C18: an ingest call that leaves its stream's batch below
\* VI_MAX_BATCH_SIZE goes on to schedule_vi_batch_flush and returns from it
\* without having handed anything to delivery: neither step adds a summary
\* and no summary was delivered by this call.
C18_BelowLimitNoDelivery ==
    [][\A p \in Producers :
          /\ (/\ pc[p] = "ingest_lock" /\ pc'[p] # "ingest_lock"
              /\ BatchSize(vi_batch_data', req[p].key) < VI_MAX_BATCH_SIZE)
                 => /\ pc'[p] = "sched_lock"
                    /\ delivered' = delivered
          /\ (pc[p] = "sched_lock" /\ pc'[p] # "sched_lock")
                 => /\ pc'[p] = "idle"
                    /\ delivered' = delivered
                    /\ \A i \in Summaries : delivered[i].by # <<"early", req[p].call>>]_vars

\* A detection of an ingest call that returned without flushing has been
\* delivered in the summary of a timer flush.
C18_Witness ==
    \E d \in Appended : \E i \in CountedIn(d) :
        /\ Returned(appended[d].call)
        /\ delivered[i].by \in TimerThreads
        /\ \A j \in Summaries : delivered[j].by # <<"early", appended[d].call>>

\* no timer is armed and the handle is clear
NoTimerPending == vi_batch_timer = None /\ \A t \in TimerThreads : timer[t] # "armed"

\* every detection appended so far is counted in a delivered summary
AllSummarized == \A d \in Appended : CountedIn(d) # {}

\* C14: with no ingest call running during the handler, the handler's steps
\* come in the order flush, cancel, close: its flush returns before the
\* cancel step, the cancel step leaves no timer pending and comes before the
\* session is closed; and when the handler returns every detection appended
\* has been summarized, the store is empty, no timer is pending, the session
\* is closed and the handler has run one flush cycle at most.
C14_ShutdownOrder ==
    [][/\ (pc[Main] \in {"flush_lock", "flush_send"}
              /\ pc'[Main] \notin {"flush_lock", "flush_send"})
            => /\ pc'[Main] = "shutdown_cancel"
               /\ vi_batch_data' = <<>>
               /\ AllSummarized'
               /\ ~session_closed'
       /\ (pc[Main] = "shutdown_cancel" /\ pc'[Main] # "shutdown_cancel")
            => /\ pc'[Main] = "shutdown_close"
               /\ NoTimerPending'
               /\ ~session_closed'
       /\ (pc[Main] # "done" /\ pc'[Main] = "done")
            => /\ pc[Main] = "shutdown_close"
               /\ session_closed'
               /\ vi_batch_data' = <<>>
               /\ AllSummarized'
               /\ NoTimerPending'
               /\ \A i, j \in Summaries :
                     (delivered[i].by = Main /\ delivered[j].by = Main)
                         => delivered[i].epoch = delivered[j].epoch]_vars

\* The handler has returned after its flush delivered the summary of a batch
\* that was waiting for an armed timer, which was cancelled.
C14_Witness ==
    /\ pc[Main] = "done"
    /\ session_closed
    /\ \E i \in Summaries :
          delivered[i].by = Main /\ delivered[i].message.total_count > 0
    /\ \E t \in TimerThreads : timer[t] = "cancelled"

\* C15, in its weakest reading: once the shutdown handler has run its final
\* flush and its cancel step (and so at any time after it has returned), no
\* timer fires and no timer thread starts a flush.
C15_NoTimerFlushAfterShutdown ==
    [][pc[Main] \in {"shutdown_close", "done"} =>
          \A t \in TimerThreads :
              /\ ~(timer[t] = "armed" /\ timer'[t] = "fired")
              /\ ~(pc[t] = "flush_lock" /\ pc'[t] # "flush_lock")]_vars

\* the positions at which detection d is stored: batch index, list index
StoredAt(d) ==
    {<<i, j>> \in (1..Len(vi_batch_data)) \X (1..MaxDetections) :
        j <= Len(vi_batch_data[i].detections) /\ vi_batch_data[i].detections[j] = d}

\* C16: as long as no flush has cleared the store, whatever the interleaving
\* of the ingest calls, the store holds one batch per stream key, every
\* detection appended is stored exactly once and in the batch of its own key,
\* and the batches' detection counts add up to the number of detections
\* appended.
C16_ConcurrentAppends ==
    epoch = 0 =>
        /\ \A i, j \in 1..Len(vi_batch_data) :
              vi_batch_data[i].key = vi_batch_data[j].key => i = j
        /\ \A d \in Appended :
              /\ Cardinality(StoredAt(d)) = 1
              /\ \A at \in StoredAt(d) : vi_batch_data[at[1]].key = appended[d].key
        /\ SumSeq([i \in 1..Len(vi_batch_data) |-> Len(vi_batch_data[i].detections)])
              = Len(appended)

\* Two ingest calls in progress at the same time have both appended to the
\* batch of one stream key, the call that read the clock last appending
\* first, and no flush has run.
C16_Witness ==
    /\ epoch = 0 /\ delivered = <<>>
    /\ \A p \in Producers : pc[p] \in {"sched_lock", "flush_lock"}
    /\ \E i \in 1..Len(vi_batch_data) :
          /\ \E d, e \in Range(vi_batch_data[i].detections) :
                appended[d].call # appended[e].call
          /\ vi_batch_data[i].last_seen < vi_batch_data[i].first_seen

\* C17: requests filed in one batch have the same (app, stream) pair, and the
\* names a summary reports are the app and the stream of the requests that
\* were filed in its batch.
C17_KeyRoundTrip ==
    /\ \A i \in 1..Len(key_store) : \A q, r \in key_store[i].requests :
          contexts[q] = contexts[r]
    /\ \A i \in 1..Len(summary_names) : \A r \in summary_names[i].requests :
          /\ summary_names[i].app_name = contexts[r].app
          /\ summary_names[i].stream_name = contexts[r].stream

\* the threads waiting to acquire vi_batch_lock
WaitsForLock(t) ==
    pc[t] \in {"ingest_lock", "sched_lock", "flush_lock", "shutdown_cancel"}

\* C19: no deadlock on the batch lock: whenever a call waits for the lock,
\* the lock is free or the thread holding it is able to run on to the end of
\* its critical section and release it.
C19_NoLockDeadlock ==
    \A t \in Threads :
        WaitsForLock(t) => (vi_batch_lock = NoThread \/ Runnable(vi_batch_lock))

\* the valid detections of the tracker's argument
ValidDetections == {i \in 1..Len(detections) : Valid(detections[i])}

\* C20: when the valid detections of a batch all lie in one frame, N of
\* them, the tracker returns unique_count = N, peak_occupancy = N and
\* frames_processed = 1 (whatever their classes and boxes, so also when they
\* are of one class with non-overlapping boxes).
C20_SingleFrame ==
    (tracker.phase = "done" /\ Cardinality(FrameKeys(detections)) = 1)
        => /\ tracking_stats.unique_count = Cardinality(ValidDetections)
           /\ tracking_stats.peak_occupancy = Cardinality(ValidDetections)
           /\ tracking_stats.frames_processed = 1

\* The tracker has returned for a batch of one frame holding several
\* detections of one class whose boxes do not overlap.
C20_Witness ==
    /\ tracker.phase = "done"
    /\ Cardinality(FrameKeys(detections)) = 1
    /\ Cardinality(ValidDetections) = Len(detections)
    /\ Len(detections) >= 2
    /\ \A i, j \in ValidDetections :
          i # j => /\ ClassOf(detections[i]) = ClassOf(detections[j])
                   /\ RatioEq(calculate_iou(detections[i].bbox.items,
                                             detections[j].bbox.items), Zero)
    /\ tracking_stats.unique_count = Len(detections)

\* the valid detections of the tracker's argument, in their order of arrival
ValidSeq == SelectSeq(detections, Valid)

\* The batch holds two frames of one detection each, of the same class, with
\* boxes of IoU at or above the threshold and a frame gap within the expiry.
SameObjectTwice ==
    /\ Len(ValidSeq) = 2
    /\ ValidSeq[1].frame_id # ValidSeq[2].frame_id
    /\ ClassOf(ValidSeq[1]) = ClassOf(ValidSeq[2])
    /\ RatioGeq(calculate_iou(ValidSeq[1].bbox.items, ValidSeq[2].bbox.items),
                IOU_THRESHOLD)
    /\ ValidSeq[1].frame_id - ValidSeq[2].frame_id <= TRACK_EXPIRY
    /\ ValidSeq[2].frame_id - ValidSeq[1].frame_id <= TRACK_EXPIRY

\* C21: tracking two frames that each hold one detection of the same class,
\* with boxes of IoU at or above the threshold and a frame gap within the
\* expiry, yields unique_count = 1 and frames_processed = 2.
C21_SameObjectTwoFrames ==
    (tracker.phase = "done" /\ SameObjectTwice)
        => /\ tracking_stats.unique_count = 1
           /\ tracking_stats.frames_processed = 2

\* The tracker has returned for such a batch whose second box has moved: the
\* IoU of the two boxes is below 1.
C21_Witness ==
    /\ tracker.phase = "done"
    /\ SameObjectTwice
    /\ ~RatioGeq(calculate_iou(ValidSeq[1].bbox.items, ValidSeq[2].bbox.items), <<1, 1>>)
    /\ ValidSeq[1].frame_id < ValidSeq[2].frame_id
    /\ tracking_stats.unique_count = 1

\* calculate_iou has returned
IouReturned == iou_result # <<>>

\* calculate_iou as called on the boxes b1 and b2 of the call's type
IouOf(b1, b2) ==
    IF iou_args.type = "float" THEN calculate_iou_float(b1, b2) ELSE calculate_iou(b1, b2)

\* the box has a positive width and a positive height
Positive(bbox) ==
    /\ {"w", "h"} \subseteq DOMAIN bbox
    /\ IF iou_args.type = "float" THEN bbox.w[1] > 0 /\ bbox.h[1] > 0
                                  ELSE bbox.w > 0 /\ bbox.h > 0

\* C22: calculate_iou is symmetric, IoU(a, b) = IoU(b, a); IoU(a, a) = 1 for
\* every box a with positive width and height; the result lies in [0, 1].
C22_IouAlgebra ==
    IouReturned
        => /\ RatioEq(iou_result, IouOf(iou_args.bbox2, iou_args.bbox1))
           /\ (/\ iou_args.bbox1 = iou_args.bbox2
               /\ {"x", "y"} \subseteq DOMAIN iou_args.bbox1
               /\ Positive(iou_args.bbox1)) => RatioEq(iou_result, <<1, 1>>)
           /\ RatioGeq(iou_result, Zero)
           /\ RatioGeq(<<1, 1>>, iou_result)

\* a field of a box of the call as a ratio
Num(v) == IF iou_args.type = "float" THEN v ELSE <<v, 1>>

\* the exact sum of two ratios
RatioSum(r, q) == <<r[1] * q[2] + q[1] * r[2], r[2] * q[2]>>

\* the box lacks one of x, y, w, h
LacksField(bbox) == ~({"x", "y", "w", "h"} \subseteq DOMAIN bbox)

\* Two boxes with all their fields share no area: one lies left of, right of,
\* above or below the other, or only touches it along an edge.
NoOverlap(b1, b2) ==
    \/ RatioGeq(Num(b2.x), RatioSum(Num(b1.x), Num(b1.w)))
    \/ RatioGeq(Num(b1.x), RatioSum(Num(b2.x), Num(b2.w)))
    \/ RatioGeq(Num(b2.y), RatioSum(Num(b1.y), Num(b1.h)))
    \/ RatioGeq(Num(b1.y), RatioSum(Num(b2.y), Num(b2.h)))

\* C23: calculate_iou returns 0 whenever either box lacks one of x, y, w, h,
\* either box has w <= 0 or h <= 0, or the two boxes share no area (boxes
\* that only touch along an edge included).
C23_IouZero ==
    IouReturned
        => LET b1 == iou_args.bbox1
               b2 == iou_args.bbox2
           IN  (\/ LacksField(b1) \/ LacksField(b2)
                \/ ~Positive(b1) \/ ~Positive(b2)
                \/ NoOverlap(b1, b2)) => RatioEq(iou_result, Zero)

\* calculate_iou has returned 0 for two boxes of positive width and height
\* that touch along a vertical edge.
C23_Witness ==
    /\ IouReturned
    /\ ~LacksField(iou_args.bbox1) /\ ~LacksField(iou_args.bbox2)
    /\ Positive(iou_args.bbox1) /\ Positive(iou_args.bbox2)
    /\ iou_args.type = "float"
    /\ RatioEq(Num(iou_args.bbox2.x),
               RatioSum(Num(iou_args.bbox1.x), Num(iou_args.bbox1.w)))
    /\ RatioEq(iou_args.bbox1.y, iou_args.bbox2.y)
    /\ RatioEq(iou_result, Zero)

\* the detection has a frame_id and a dict bbox holding x, y, w and h
Usable(det) ==
    /\ Valid(det)
    /\ {"x", "y", "w", "h"} \subseteq DOMAIN det.bbox.items

\* the statistics are those of the batch b
SameStats(stats, b) ==
    LET result == track_objects(b)
    IN  /\ stats.unique_count = result.unique_count
        /\ stats.frames_processed = result.frames_processed
        /\ stats.peak_occupancy = result.peak_occupancy
        /\ RatioEq(stats.avg_occupancy, result.avg_occupancy)

\* C24: the tracker discards every detection that lacks a frame_id, has an
\* absent or non-dict bbox, or has a bbox lacking one of x, y, w, h: the
\* statistics are those of the batch without these detections (all zero when
\* no other detection is left).
C24_MalformedDiscarded ==
    tracker.phase = "done" => SameStats(tracking_stats, SelectSeq(detections, Usable))

\* C25: within one flush cycle the stages run in the order Draining,
\* Summarizing, Delivering: once a summary of the cycle has been handed to
\* delivery, the store no longer holds any of the batches being flushed.
C25_DrainBeforeDeliver ==
    \A t \in Threads :
        pc[t] = "flush_send"
            => \A i \in 1..Len(flushLocal[t].items) :
                   \A k \in 1..Len(vi_batch_data) :
                       vi_batch_data[k].key # flushLocal[t].items[i].key

\* The batch rearranged frame by frame in ascending frame_id order, the
\* detections of a frame in their order of arrival. Two batches that hold the
\* same detections in the same relative order inside each frame are
\* rearranged into the same batch.
RECURSIVE ByFrame(_, _)
ByFrame(dets, frame_ids) ==
    IF frame_ids = <<>> THEN <<>>
    ELSE FrameOf(dets, Head(frame_ids)) \o ByFrame(dets, Tail(frame_ids))

\* C26: the tracker processes frames in ascending frame_id order regardless
\* of arrival order: its output for a batch is its output for the same
\* detections arriving frame by frame in ascending order.
C26_ArrivalOrderIrrelevant ==
    tracker.phase = "done"
        => SameStats(tracking_stats, ByFrame(detections, sorted(FrameKeys(detections))))

\* The tracker has returned for a batch of three frames that arrived out of
\* order and in which a detection was matched to a track.
C26_Witness ==
    /\ tracker.phase = "done"
    /\ Cardinality(FrameKeys(detections)) = 3
    /\ \E i, j \in ValidDetections : i < j /\ detections[i].frame_id > detections[j].frame_id
    /\ tracking_stats.unique_count < Cardinality(ValidDetections)

\* the ids of a sequence of tracks
TrackIds(tracks) == {tracks[k].id : k \in 1..Len(tracks)}

\* a step of the loop over the frames: the body has run for one more frame
FrameStep ==
    /\ tracker.phase = "loop"
    /\ tracker'.phase = "loop"
    /\ tracker'.next = tracker.next + 1

\* The batch holds the same box of the same class in two frames further
\* apart than the expiry, and nothing else that is valid.
SameObjectAfterGap ==
    /\ Len(ValidSeq) = 2
    /\ ClassOf(ValidSeq[1]) = ClassOf(ValidSeq[2])
    /\ ValidSeq[1].bbox = ValidSeq[2].bbox
    /\ \/ ValidSeq[2].frame_id - ValidSeq[1].frame_id > TRACK_EXPIRY
       \/ ValidSeq[1].frame_id - ValidSeq[2].frame_id > TRACK_EXPIRY

\* C27: when a frame is processed, exactly the active tracks with
\* frame_id - last_frame > TRACK_EXPIRY leave the active set (a gap equal to
\* TRACK_EXPIRY keeps the track); a track that has left never comes back, yet
\* it stays in all_tracks, so the same object reappearing after a gap larger
\* than the expiry raises unique_count by one.
C27_Expiry ==
    /\ [][FrameStep =>
            LET frame_id == tracker.sorted_frames[tracker.next]
                old == tracker.active_tracks
                new == tracker'.active_tracks
            IN  /\ \A k \in 1..Len(old) :
                       old[k].id \in TrackIds(new)
                           <=> frame_id - old[k].last_frame <= TRACK_EXPIRY
                /\ TrackIds(new) \cap tracker.all_tracks \subseteq TrackIds(old)
                /\ tracker.all_tracks \subseteq tracker'.all_tracks]_vars
    /\ [](tracker.phase = "done" /\ SameObjectAfterGap
              => tracking_stats.unique_count = 2)

\* The tracker has returned two tracks for the same box seen in frames 1 and 3.
C27_Witness ==
    /\ tracker.phase = "done"
    /\ SameObjectAfterGap
    /\ Usable(ValidSeq[1])
    /\ tracking_stats.unique_count = 2

\* the tracks made for this frame's unmatched detections in a loop step
Spawned == {k \in 1..Len(tracker'.active_tracks) :
               tracker'.active_tracks[k].id \notin tracker.all_tracks}

\* the tracks of the active set that a loop step has matched to a detection
\* of the frame: they were there before and now carry the frame's id
Matched == {k \in 1..Len(tracker'.active_tracks) :
               /\ tracker'.active_tracks[k].id \in tracker.all_tracks
               /\ tracker'.active_tracks[k].last_frame = tracker.sorted_frames[tracker.next]}

\* the detections of the frame processed by the next loop step
CurrentDetections == FrameOf(detections, tracker.sorted_frames[tracker.next])

\* C28: a detection is only ever matched to an active track of the same
\* class_name: a matched track has the class of a detection of the frame
\* with the box it took, and every detection whose class differs from the
\* class of every active track gets a new track.
C28_SameClassOnly ==
    [][FrameStep =>
          /\ \A k \in Matched :
                \E i \in 1..Len(CurrentDetections) :
                    /\ ClassOf(CurrentDetections[i]) = tracker'.active_tracks[k].class
                    /\ CurrentDetections[i].bbox.items = tracker'.active_tracks[k].bbox
          /\ \A c \in {ClassOf(CurrentDetections[i]) : i \in 1..Len(CurrentDetections)} :
                (\A k \in 1..Len(tracker.active_tracks) : tracker.active_tracks[k].class # c)
                    => Cardinality({k \in Spawned : tracker'.active_tracks[k].class = c})
                           = Cardinality({i \in 1..Len(CurrentDetections) :
                                              ClassOf(CurrentDetections[i]) = c})]_vars

\* Two frames have been processed and the active set holds two tracks of
\* different classes with the same box: the second frame's detection lay
\* exactly on the first frame's track of another class and got its own track.
C28_Witness ==
    /\ tracker.phase = "loop"
    /\ tracker.next = 3
    /\ Len(tracker.active_tracks) = 2
    /\ tracker.active_tracks[1].class # tracker.active_tracks[2].class
    /\ tracker.active_tracks[1].bbox = tracker.active_tracks[2].bbox
    /\ {"x", "y", "w", "h"} \subseteq DOMAIN tracker.active_tracks[1].bbox
    /\ tracker.active_tracks[1].last_frame < tracker.active_tracks[2].last_frame

\* the box has x, y, w and h, with a positive width and height
ValidGeometry(bbox) ==
    /\ {"x", "y", "w", "h"} \subseteq DOMAIN bbox
    /\ bbox.w > 0
    /\ bbox.h > 0

\* the active track of the given id before the loop step
TrackBefore(id) ==
    tracker.active_tracks[CHOOSE k \in 1..Len(tracker.active_tracks) :
                              tracker.active_tracks[k].id = id]

\* C29: a detection/track pair is a match candidate exactly when its IoU is
\* at or above IOU_THRESHOLD, whatever the threshold in the range 0 to 1: a
\* matched track was at or above the threshold with the detection whose box
\* it took; a track of the frame's active set that stays unmatched leaves no
\* same-class detection at or above the threshold without a match; and a
\* pair with invalid geometry (a box lacking a field or with a non-positive
\* width or height) never matches.
C29_CandidateIffThreshold ==
    [][FrameStep =>
          LET frame_id == tracker.sorted_frames[tracker.next]
              new == tracker'.active_tracks
          IN  /\ \A k \in Matched :
                    /\ \E i \in 1..Len(CurrentDetections) :
                          /\ CurrentDetections[i].bbox.items = new[k].bbox
                          /\ RatioGeq(calculate_iou(CurrentDetections[i].bbox.items,
                                                    TrackBefore(new[k].id).bbox),
                                      IOU_THRESHOLD)
                    /\ ValidGeometry(new[k].bbox)
                    /\ ValidGeometry(TrackBefore(new[k].id).bbox)
              /\ \A k \in 1..Len(new) :
                    (new[k].id \in tracker.all_tracks /\ new[k].last_frame # frame_id)
                        => \A i \in 1..Len(CurrentDetections) :
                               (/\ ClassOf(CurrentDetections[i]) = new[k].class
                                /\ RatioGeq(calculate_iou(CurrentDetections[i].bbox.items,
                                                          new[k].bbox),
                                            IOU_THRESHOLD))
                                   => \A s \in Spawned :
                                          \/ new[s].class # new[k].class
                                          \/ new[s].bbox # CurrentDetections[i].bbox.items]_vars

\* The candidates of the frame processed by the next loop step: the pairs of
\* a detection (by index) and an unexpired active track (by position) of the
\* same class with an IoU at or above the threshold.
Candidates ==
    {p \in (1..Len(CurrentDetections)) \X (1..Len(tracker.active_tracks)) :
        LET det == CurrentDetections[p[1]]
            track == tracker.active_tracks[p[2]]
        IN  /\ tracker.sorted_frames[tracker.next] - track.last_frame <= TRACK_EXPIRY
            /\ track.class = ClassOf(det)
            /\ RatioGeq(calculate_iou(det.bbox.items, track.bbox), IOU_THRESHOLD)}

PairIou(p) ==
    calculate_iou(CurrentDetections[p[1]].bbox.items, tracker.active_tracks[p[2]].bbox)

\* p is taken before q: its IoU is higher, or equal and p was generated first
\* (detections in the outer loop, tracks in the inner one).
TakenBefore(p, q) ==
    \/ ~RatioGeq(PairIou(q), PairIou(p))
    \/ /\ RatioEq(PairIou(p), PairIou(q))
       /\ (p[1] < q[1] \/ (p[1] = q[1] /\ p[2] < q[2]))

\* A is the greedy one-to-one assignment: a candidate is assigned exactly when
\* no candidate taken before it with the same detection or track is assigned.
Greedy(A) ==
    \A p \in Candidates :
        p \in A <=> ~\E q \in A : /\ TakenBefore(q, p)
                                  /\ (q[1] = p[1] \/ q[2] = p[2])

\* the track with the id of the old track at position k, after the loop step
TrackAfter(k) ==
    tracker'.active_tracks[CHOOSE n \in 1..Len(tracker'.active_tracks) :
                               tracker'.active_tracks[n].id = tracker.active_tracks[k].id]

\* C30: matching within a frame is greedy and one-to-one: candidates are taken
\* in descending IoU order, ties in the order of their generation, and one is
\* assigned only if neither its track nor its detection is assigned already,
\* so no track and no detection is in two assigned pairs; an assigned track
\* takes the detection's bbox and the current frame as last_frame, every other
\* unexpired track is left as it was, and the detections left over are the
\* ones that get new tracks.
C30_GreedyOneToOne ==
    [][FrameStep =>
          \E A \in SUBSET Candidates :
              /\ Greedy(A)
              /\ \A p, q \in A : p # q => (p[1] # q[1] /\ p[2] # q[2])
              /\ \A p \in A :
                    /\ TrackAfter(p[2]).bbox = CurrentDetections[p[1]].bbox.items
                    /\ TrackAfter(p[2]).last_frame = tracker.sorted_frames[tracker.next]
              /\ \A k \in 1..Len(tracker.active_tracks) :
                    (/\ tracker.active_tracks[k].id \in TrackIds(tracker'.active_tracks)
                     /\ \A p \in A : p[2] # k)
                        => TrackAfter(k) = tracker.active_tracks[k]
              /\ Cardinality(Spawned) = Len(CurrentDetections) - Cardinality(A)]_vars

\* Two frames have been processed; the second held one detection, for which
\* the two tracks of the first frame were both candidates with different
\* IoUs: the track with the higher IoU was matched, the other is left as it
\* was, and no track was made.
C30_Witness ==
    /\ tracker.phase = "loop"
    /\ tracker.next = 3
    /\ tracker.all_tracks = {1, 2}
    /\ Len(tracker.active_tracks) = 2
    /\ tracker.active_tracks[1].class = tracker.active_tracks[2].class
    /\ tracker.active_tracks[1].last_frame = 1
    /\ tracker.active_tracks[2].last_frame = 2
    /\ Len(FrameOf(detections, 1)) = 2
    /\ RatioGeq(calculate_iou(tracker.active_tracks[2].bbox, tracker.active_tracks[1].bbox),
                IOU_THRESHOLD)
    /\ ~RatioGeq(calculate_iou(tracker.active_tracks[2].bbox, tracker.active_tracks[1].bbox),
                 <<1, 1>>)
    /\ ~RatioGeq(Zero, IOU_THRESHOLD)

\* the ids of the tracks made in a loop step
SpawnedIds == {tracker'.active_tracks[k].id : k \in Spawned}

\* C31: every detection left unmatched in a frame spawns exactly one new
\* track, with a fresh id greater than every id issued before, added to the
\* active set and to the lifetime set; the lifetime set holds nothing else,
\* and unique_count is its size, so it is the number of valid detections
\* minus the number of matches made.
C31_FreshTracks ==
    /\ [][FrameStep =>
            /\ Cardinality(Spawned) = Len(CurrentDetections) - Cardinality(Matched)
            /\ Cardinality(SpawnedIds) = Cardinality(Spawned)
            /\ SpawnedIds = tracker.next_track_id..(tracker'.next_track_id - 1)
            /\ \A id \in SpawnedIds : \A old \in tracker.all_tracks : id > old
            /\ tracker'.all_tracks = tracker.all_tracks \cup SpawnedIds]_vars
    /\ [](tracker.phase = "loop" /\ tracker.next = 1 => tracker.all_tracks = {})
    /\ [](tracker.phase = "done" /\ FrameKeys(detections) # {}
              => tracking_stats.unique_count = Cardinality(tracker.all_tracks))

\* Two frames have been processed: the first held one detection; of the two
\* detections of the second, one was matched to the first frame's track and
\* the other got track 2.
C31_Witness ==
    /\ tracker.phase = "loop"
    /\ tracker.next = 3
    /\ Len(FrameOf(detections, tracker.sorted_frames[1])) = 1
    /\ Len(FrameOf(detections, tracker.sorted_frames[2])) = 2
    /\ tracker.all_tracks = {1, 2}
    /\ TrackIds(tracker.active_tracks) = {1, 2}

\* the frame ids of the valid detections, and how many of them share one
ValidFrames == {detections[i].frame_id : i \in ValidDetections}

Occupancy(frame_id) ==
    Cardinality({i \in ValidDetections : detections[i].frame_id = frame_id})

\* frames_processed is the number of distinct frame ids among the valid
\* detections and peak_occupancy the largest number of them in one frame
FramesAndPeak ==
    /\ tracking_stats.frames_processed = Cardinality(ValidFrames)
    /\ \E f \in ValidFrames : Occupancy(f) = tracking_stats.peak_occupancy
    /\ \A f \in ValidFrames : Occupancy(f) <= tracking_stats.peak_occupancy

\* C32 as stated: frames_processed and peak_occupancy are as above, and
\* avg_occupancy times frames_processed (a float product) equals the number
\* of valid detections.
C32_MeanTimesFrames ==
    tracker.phase = "done" /\ ValidDetections # {}
        => /\ FramesAndPeak
           /\ RatioEq(fmul(tracking_stats.avg_occupancy,
                           <<tracking_stats.frames_processed, 1>>),
                      <<Cardinality(ValidDetections), 1>>)

\* C32: frames_processed is the number of distinct frame ids among the valid
\* detections, peak_occupancy is the largest number of valid detections
\* sharing one frame id, and avg_occupancy is the number of valid detections
\* divided by frames_processed and rounded to a float: it differs from the
\* exact mean by at most the relative error 2^-Precision of one rounding.
\* Without a valid detection the four statistics are 0.
C32_Occupancy ==
    tracker.phase = "done"
        => IF ValidDetections = {}
           THEN tracking_stats = NoStats
           ELSE /\ FramesAndPeak
                /\ LET avg == tracking_stats.avg_occupancy
                       n == Cardinality(ValidDetections)
                       d == Cardinality(ValidFrames)
                   IN  Abs(avg[1] * d - n * avg[2]) * Pow2(Precision) <= n * avg[2]

C32_Witness ==
    /\ tracker.phase = "done"
    /\ Len(detections) = 8
    /\ Cardinality(ValidDetections) = 7
    /\ tracking_stats.frames_processed = 3
    /\ tracking_stats.peak_occupancy = 3
    /\ ~RatioEq(tracking_stats.avg_occupancy, <<7, 3>>)

\* the batch's detections of a class
OfClass(cls) == {i \in 1..Len(detections) : detections[i].class_name = cls}

\* C33: once a batch is summarized, the classes of the summary are the
\* classes of the batch's detections, and for each class the count is the
\* number of raw detections of the class and the minimum and maximum
\* confidence are the least and the greatest confidence among them
\* (confidences in [0, 1]).
C33_ClassStatistics ==
    tracker.phase = "done"
        => /\ DOMAIN class_stats.class_counts = {detections[i].class_name : i \in 1..Len(detections)}
           /\ DOMAIN class_stats.confidence_min = DOMAIN class_stats.class_counts
           /\ DOMAIN class_stats.confidence_max = DOMAIN class_stats.class_counts
           /\ \A cls \in DOMAIN class_stats.class_counts :
                 /\ class_stats.class_counts[cls] = Cardinality(OfClass(cls))
                 /\ \E i \in OfClass(cls) :
                       RatioEq(detections[i].confidence, class_stats.confidence_min[cls])
                 /\ \A i \in OfClass(cls) :
                       RatioGeq(detections[i].confidence, class_stats.confidence_min[cls])
                 /\ \E i \in OfClass(cls) :
                       RatioEq(detections[i].confidence, class_stats.confidence_max[cls])
                 /\ \A i \in OfClass(cls) :
                       RatioGeq(class_stats.confidence_max[cls], detections[i].confidence)

C33_Witness ==
    /\ tracker.phase = "done"
    /\ DOMAIN class_stats.class_counts = {"person"}
    /\ class_stats.class_counts["person"] = 2
    /\ tracking_stats.unique_count = 1
    /\ RatioEq(class_stats.confidence_min["person"], <<1, 4>>)
    /\ RatioEq(class_stats.confidence_max["person"], One)

\* the detections of the request's frame entries already stored, in order,
\* each with the frame entry it came in
RECURSIVE Ingested(_)
Ingested(n) ==
    IF n = 0 THEN <<>>
    ELSE LET frame_data == vi_data.frames[n]
             ds == IF "detections" \in DOMAIN frame_data THEN frame_data.detections ELSE <<>>
         IN  Ingested(n - 1) \o [k \in 1..Len(ds) |-> [frame_data |-> frame_data, detection |-> ds[k]]]

\* C39: a stored detection has the frame_id of the detection record itself,
\* or 0 when the record has none, never that of its frame entry; its
\* class_name defaults to 'unknown' and its bbox to an empty dict. So every
\* stored detection carries a frame_id, the tracker discards none for
\* lacking one (only those whose bbox is not a dict), and the detections
\* ingested without a frame_id of their own are all tracked in the one
\* frame 0.
C39_IngestDefaults ==
    LET ingested == Ingested(vi_data.next - 1)
        own(i) == ingested[i].detection
        anonymous == {i \in 1..Len(ingested) : "frame_id" \notin DOMAIN own(i)}
    IN  /\ Len(detections) = Len(ingested)
        /\ \A i \in 1..Len(ingested) :
              /\ DOMAIN detections[i] = {"class_name", "confidence", "frame_id", "bbox"}
              /\ detections[i].frame_id =
                    IF "frame_id" \in DOMAIN own(i) THEN own(i).frame_id ELSE 0
              /\ detections[i].class_name =
                    IF "class_name" \in DOMAIN own(i) THEN own(i).class_name ELSE "unknown"
              /\ IF "bbox" \in DOMAIN own(i)
                 THEN detections[i].bbox = own(i).bbox
                 ELSE detections[i].bbox.type = "dict" /\ DOMAIN detections[i].bbox.items = {}
        /\ tracker.phase = "done"
              => LET tracked == {i \in 1..Len(detections) : detections[i].bbox.type = "dict"}
                 IN  /\ ValidDetections = tracked
                     /\ anonymous \cap tracked # {}
                           => /\ 0 \in FrameKeys(detections)
                              /\ Len(FrameOf(detections, 0)) = Cardinality(anonymous \cap tracked)
                              /\ tracking_stats.peak_occupancy >= Cardinality(anonymous \cap tracked)
                     /\ tracking_stats.frames_processed =
                           Cardinality({detections[i].frame_id : i \in tracked})

C39_Witness ==
    /\ tracker.phase = "done"
    /\ Len(vi_data.frames) = 2
    /\ Len(detections) = 3
    /\ \A i \in 1..3 : detections[i].frame_id = 0
    /\ detections[2].class_name = "unknown"
    /\ detections[3].bbox = Dict(<<>>)
    /\ tracking_stats.frames_processed = 1
    /\ tracking_stats.peak_occupancy = 3

\* the ingest calls between their append (lines 438-462) and the return of
\* the flush_vi_batch or schedule_vi_batch_flush call that follows it
PastAppend == {p \in Producers : pc[p] \in {"sched_lock", "flush_lock", "flush_send"}}

\* C34: whenever no ingest call is between its append and the return of the
\* flush or schedule call it makes, every batch in the store holds fewer than
\* VI_MAX_BATCH_SIZE detections.
C34_BoundedBatches ==
    PastAppend = {}
        => \A i \in 1..Len(vi_batch_data) :
              Len(vi_batch_data[i].detections) < VI_MAX_BATCH_SIZE

\* Every ingest call has returned, one of them after it filled a batch to
\* the limit and flushed it, and a batch below the limit is in the store or
\* the store is empty.
C34_Witness ==
    /\ \A p \in Producers : pc[p] = "idle"
    /\ nextCall > MaxCalls
    /\ \E j \in Summaries :
          /\ delivered[j].by[1] = "early"
          /\ delivered[j].message.total_count = VI_MAX_BATCH_SIZE
    /\ \A i \in 1..Len(vi_batch_data) :
          Len(vi_batch_data[i].detections) < VI_MAX_BATCH_SIZE

\* C35: every batch in the store has first_seen <= last_seen, and no
\* summary reports a negative duration.
C35_FirstSeenBeforeLastSeen ==
    /\ \A i \in 1..Len(vi_batch_data) :
          vi_batch_data[i].first_seen <= vi_batch_data[i].last_seen
    /\ \A j \in Summaries : delivered[j].message.duration >= 0

\* the threads inside flush_vi_batch or about to take its lock
InFlush == {t \in Threads : pc[t] \in {"flush_lock", "flush_send"}}

\* C36: no detection is stranded: whenever the store holds a batch with a
\* detection and no ingest call is between its append and the flush or
\* schedule call that follows it, a timer is pending or a flush is in
\* progress or about to take the lock.
C36_NothingStranded ==
    Stored # {} /\ PastAppend = {}
        => \/ \E t \in TimerThreads : timer[t] = "armed"
           \/ InFlush # {}

\* C37: a flush, whatever its trigger, works on every batch of the store:
\* while it sends, the handle is clear, no timer is armed and its snapshot is
\* the whole store; the summaries of one cycle all come from one trigger;
\* and once the store has been cleared, every detection appended before is
\* in a summary of that cycle and none of them is left in the store.
C37_FlushDrainsEveryStream ==
    /\ \A t \in Threads :
          pc[t] = "flush_send"
              => /\ vi_batch_timer = None
                 /\ \A u \in TimerThreads : timer[u] # "armed"
                 /\ flushLocal[t].items = vi_batch_data
    /\ \A i \in Summaries : \A j \in Summaries :
          delivered[i].epoch = delivered[j].epoch => delivered[i].by = delivered[j].by
    /\ \A d \in Appended :
          appended[d].epoch < epoch
              => /\ \E j \in CountedIn(d) : delivered[j].epoch = appended[d].epoch
                 /\ d \notin Stored

\* An early flush, triggered by a request that filled the batch of one
\* stream, has also summarized and removed the smaller batch of the other
\* stream and cancelled the window timer armed for it.
C37_Witness ==
    \E i \in Summaries : \E j \in Summaries :
        /\ delivered[i].by[1] = "early"
        /\ delivered[j].by = delivered[i].by
        /\ delivered[i].message.total_count >= VI_MAX_BATCH_SIZE
        /\ delivered[j].message.key # delivered[i].message.key
        /\ delivered[j].message.total_count = 1
        /\ vi_batch_data = <<>>
        /\ vi_batch_timer = None
        /\ \E u \in TimerThreads : timer[u] = "cancelled"
        /\ \A p \in Producers : pc[p] = "idle"

\* C38: also when summarizing a batch raises, a flush cycle leaves the store
\* consistent: once the cycle is over, no detection it delivered is still in
\* the store, and no detection is delivered in two summaries.
C38_FaultLeavesStoreConsistent ==
    /\ Flushing = {} => \A d \in Stored : CountedIn(d) = {}
    /\ \A d \in Appended : Cardinality(CountedIn(d)) <= 1

====
